---- MODULE Spec2Model ----
(***************************************************************************)
(* Join-MPA: the theme service (js/shared/theme-service.js), the theme     *)
(* resolution of the summary layout (js/summary/summary-layout.js) and the *)
(* task statistics of the dashboard (js/summary/summary-tasks.js).         *)
(*                                                                         *)
(* Spec    the theme service as a state machine: module load, header       *)
(*         wiring, toggle clicks, the exported calls, the 100 ms timer of   *)
(*         applyTheme and OS color-scheme changes.                          *)
(* SpecFn  the pure functions, applied to inputs drawn by FnInit.           *)
(***************************************************************************)
EXTENDS Integers, Sequences, FiniteSets, TLC

VARIABLES
  \* ---- environment of the page
  storageMode,          \* localStorage: "ok" | "readonly" (setItem throws) | "denied" (getItem and setItem throw)
  joinTheme,            \* the item stored under "joinTheme", or NoItem
  osDark,               \* matchMedia("(prefers-color-scheme: dark)").matches
  hasController,        \* navigator.serviceWorker.controller is non-null
  \* ---- theme-service.js
  loaded,               \* the module has been evaluated (initializeThemeService has run)
  onLoadPending,        \* the DOMContentLoaded callback of initializeThemeService is registered and has not run
  toggleWired,          \* handleThemeToggle is the click listener of #headerThemeBtn
  dataTheme,            \* document.documentElement's data-theme attribute, or Unset
  systemThemeListener,  \* the module variable systemThemeListener is non-null
  mqlListeners,         \* number of MediaQueryList objects that carry handleSystemThemeChange as change listener
  pendingApply,         \* applyTheme calls suspended at `await updateSummaryIconsForTheme`, in timer order
  effects,              \* the storage writes and worker messages of the latest step, in order
  lastApply,            \* the applyTheme / applyThemeWithoutIcons call that returned or threw in the latest step, or NoCall
  handlerRuns,          \* runs of handleSystemThemeChange in the latest step
  \* ---- pure functions (SpecFn)
  fnCall,               \* which function FnInit selected
  tasks,                \* argument of calculateStats
  stats,                \* result of calculateStats, or NoStats
  rotation,             \* <<p, getNextTheme(p), getNextTheme(getNextTheme(p)), ...>>
  realTheme             \* result of getRealTheme, or Pending

VARIABLES
  \* ---- ui-helpers.js: the resize listener (SpecResize)
  innerWidth,           \* window.innerWidth
  isMobileView,         \* the module variable isMobileView
  resizeListening,      \* setupResizeListenerOnWidthChange has added its resize listener
  resizeTimeout,        \* ticks until the listener's pending timer fires, or NoTimer
  quiet,                \* ticks since the latest resize event, up to debounceMs
  burstFrom,            \* window width before the first resize event of the burst the listener is in, or NoBurst
  callbacks,            \* calls of onViewportModeChange in the latest step
  fired,                 \* the latest step ran the listener's timer callback
  layoutShown    \* the layout in the page: "none" | "mobile" | "desktop"

VARIABLES
  \* ---- summary__init.js, splash.service.js: the dashboard (SpecDash)
  authUser,             \* getCurrentAuthUser() returns a user
  subscribed,           \* initSummary has run: the onAuthChange callback is registered
  lastNotified,         \* the latest auth notification delivered: "none" | "user" | "null"
  splashHidden,         \* #splashScreen has the class splash--hidden
  currentUserData,      \* the module variable currentUserData is non-null
  handlers,             \* the handleAuthUserChange calls suspended at an await
  hideTimers,           \* pending timers of hideSplashDelayed, in firing order
  statsShown,           \* the statistics the summary cards show, or NoStats
  ended,                \* the handleAuthUserChange call that ended in the latest step, or NoHandler
  hiddenBy              \* the call whose hide timer fired in the latest step, or NoHandler

VARIABLES
  \* ---- service workers: lifecycle (SpecLifecycle)
  swVariant,            \* which worker file is installed: "basic" | "lifecycle" | "template"
  swState,              \* "parsed" | "installing" | "installed" | "activating" | "activated" | "redundant"
  skipWaitingFlag,      \* self.skipWaiting() has been called
  installPending,       \* the install event waits for a promise handed to waitUntil
  activatePc,           \* the activate event's waitUntil promise: "none" | "keys" | "delete" | "done"
  keysSnapshot,         \* the cache names caches.keys() resolved with
  claimState,           \* self.clients.claim(): "none" | "requested" | "settled"
  cacheKeys,            \* the names of the caches in CacheStorage
  keysBefore,           \* cacheKeys when the activate event was dispatched
  controllerOf          \* per open tab its controlling worker: "none" | "old" | "new"

\* the update checker of a page (sw-update.js)
VARIABLES
  appVersion,      \* localStorage item "app-version", or NoItem
  currentVersion,  \* module variable currentVersion
  swListening,     \* handleSwMessage is registered for the worker's messages
  handled,         \* number of SW_UPDATE_AVAILABLE messages the page has received
  storedBefore,    \* this step: the item as the handler found it
  swMessage,       \* this step: the version of the message handled, or NoItem
  raised           \* this step: the version of the swUpdateAvailable event, or NoItem

\* the install prompt manager (install-prompt.js)
VARIABLES
  deferredPrompt,        \* the beforeinstallprompt event held (its number), or NullPrompt
  canShowInstallPrompt,  \* module flag
  promptCalls,           \* per event: the number of prompt() calls made on it
  awaitingChoice,        \* showInstallPrompt calls suspended at await userChoice: their events
  eventsFired,           \* beforeinstallprompt events dispatched so far
  lastReturn             \* this step: what a showInstallPrompt call returned, or "none"

\* the landing page (landing__init.js)
VARIABLES
  landingVariant,  \* "splash" (landing__init.js, timers) or "direct" (redirect at once)
  landingPc,       \* "loading" | "subscribed" | "splashTimer" | "redirectTimer" | "idle" | "left"
  hasRedirected,   \* initLanding's local flag
  redirectUser,    \* the callback's argument captured by the pending timers
  locationHref,    \* "index" | "summary" | "login"
  redirectCount,   \* assignments to window.location.href
  authSeen,        \* the auth states notified since the page loaded, oldest first
  landingSplashHidden  \* class splash--hidden on #splashScreen

\* the worker's router (registerRoute calls) and one fetch event
VARIABLES
  swRouter,      \* "template" (service-worker-template.js) or "setupRouting" (sw-messages.js)
  fetchRequest,  \* the request of the fetch event
  fetchPc,       \* "pending" until the router has handled the event
  matching,      \* names of the registered routes whose predicate accepts the request
  response,      \* the route that answers: its name, strategy and cache name
  strategyPc,    \* "idle" | "network" (the response waits for the network) |
                 \* "revalidate" (answered, the network attempt goes on) | "done"
  cached,        \* the route's cache holds a copy for the request
  netResult,     \* "pending" | "ok" | "failed": the strategy's network attempt
  timerFired,    \* the strategy's network timeout has elapsed
  fetchOutcome,       \* "none" | "network" | "cache" | "error" | "unhandled"
  cacheConsulted, \* the strategy has looked the request up in its cache
  cachePopulated  \* the strategy has put a response into its cache

\* the worker's message handlers (service-worker-template.js) and its settings database
VARIABLES
  settingsStore,  \* committed content of the object store 'settings': key -> value
  openQueue,      \* handlers suspended at await openSettingsDatabase(), oldest first
  txQueue,        \* readwrite transactions on 'settings' not yet complete, oldest first
  matchQueue,     \* handlers suspended at await self.clients.matchAll(), oldest first
  inbox,          \* per tab: messages posted by the worker and not yet delivered
  sent,           \* number of messages the tabs have posted to the worker
  swClients,      \* the tabs controlled by the worker
  lastCommit,     \* this step: the transaction that completed
  notified,       \* this step: the tabs the worker posted SW_UPDATE_AVAILABLE to
  lastDelivered,  \* this step: the message a tab received
  swLog,          \* this step: the worker's console line
  lastSync        \* the latest SYNC_SETTINGS message posted and how far it has come

themeVars == <<storageMode, joinTheme, osDark, hasController, loaded, onLoadPending,
               toggleWired, dataTheme, systemThemeListener, mqlListeners,
               pendingApply, effects, lastApply, handlerRuns>>
fnVars == <<fnCall, tasks, stats, rotation, realTheme>>
resizeVars == <<innerWidth, isMobileView, resizeListening, resizeTimeout, quiet,
                burstFrom, callbacks, fired, layoutShown>>
dashVars == <<authUser, subscribed, lastNotified, splashHidden, currentUserData,
              handlers, hideTimers, statsShown, ended, hiddenBy>>
updateVars == <<appVersion, currentVersion, swListening, handled, storedBefore, swMessage,
                raised>>
installVars == <<deferredPrompt, canShowInstallPrompt, promptCalls, awaitingChoice,
                 eventsFired, lastReturn>>
landingVars == <<landingVariant, landingPc, hasRedirected, redirectUser, locationHref,
                 redirectCount, authSeen, landingSplashHidden>>
routingVars == <<swRouter, fetchRequest, fetchPc, matching, response, strategyPc, cached,
                 netResult, timerFired, fetchOutcome, cacheConsulted, cachePopulated>>
messagesVars == <<settingsStore, openQueue, txQueue, matchQueue, inbox, sent, swClients,
                  lastCommit, notified, lastDelivered, swLog, lastSync>>
lifecycleVars == <<swVariant, swState, skipWaitingFlag, installPending, activatePc,
                   keysSnapshot, claimState, cacheKeys, keysBefore, controllerOf>>
vars == <<themeVars, fnVars, resizeVars, dashVars, lifecycleVars, messagesVars, routingVars, landingVars, installVars, updateVars>>
\* what the actions of one part leave alone
notTheme == <<fnVars, resizeVars, dashVars, lifecycleVars, messagesVars, routingVars, landingVars, installVars, updateVars>>
notFn == <<themeVars, resizeVars, dashVars, lifecycleVars, messagesVars, routingVars, landingVars, installVars, updateVars>>
notResize == <<themeVars, fnVars, dashVars, lifecycleVars, messagesVars, routingVars, landingVars, installVars, updateVars>>
notDash == <<themeVars, fnVars, resizeVars, lifecycleVars, messagesVars, routingVars, landingVars, installVars, updateVars>>
notLifecycle == <<themeVars, fnVars, resizeVars, dashVars, messagesVars, routingVars, landingVars, installVars, updateVars>>
notLanding == <<themeVars, fnVars, resizeVars, dashVars, lifecycleVars, messagesVars,
               routingVars, installVars, updateVars>>
notInstall == <<themeVars, fnVars, resizeVars, dashVars, lifecycleVars, messagesVars,
               routingVars, landingVars, updateVars>>
notUpdate == <<themeVars, fnVars, resizeVars, dashVars, lifecycleVars, messagesVars,
              routingVars, landingVars, installVars>>
notRouting == <<themeVars, fnVars, resizeVars, dashVars, lifecycleVars, messagesVars, landingVars, installVars, updateVars>>
notMessages == <<themeVars, fnVars, resizeVars, dashVars, lifecycleVars, routingVars, landingVars, installVars, updateVars>>

\* ---------------------------------------------------------------- bounds
MaxPending == 2
MaxListeners == 2
MaxTasks == 3
MaxRotations == 3
MaxHandlers == 2
MaxTabs == 2
MaxMessages == 3
MaxNotifications == 5
MaxPrompts == 2
MaxUpdates == 3
MaxCalls == 2

\* ---------------------------------------------------------------- values
NoItem == "<null>"
Unset == "<unset>"
Pending == "<pending>"
\* the argument of calculateStats: null / undefined, or an array
NullTasks == [null |-> TRUE]
Array(items) == [items |-> items]
NoStats == [pending |-> TRUE]
NullDate == "<null>"
NoField == "<undefined>"

THEMES == <<"device", "light", "dark">>
ThemeSet == {THEMES[i] : i \in 1..Len(THEMES)}
\* "blue" stands for any stored string that is none of THEMES
StoredStrings == ThemeSet \cup {"blue"}
StorageModes == {"ok", "readonly", "denied"}

NoCall == [fn |-> "none", attempted |-> {}, thrown |-> FALSE]

\* ---------------------------------------------------------------- helpers
\* Array.prototype.indexOf, 0-based, -1 when absent
IndexOf(seq, x) ==
  IF \E i \in 1..Len(seq) : seq[i] = x
  THEN (CHOOSE i \in 1..Len(seq) : seq[i] = x /\ \A j \in 1..(i - 1) : seq[j] # x) - 1
  ELSE -1

getNextTheme_wrongStep(current) ==
  LET idx == IndexOf(THEMES, current)
  IN  THEMES[((idx + 2) % Len(THEMES)) + 1]

getNextTheme(current) ==
  LET idx == IndexOf(THEMES, current)
  IN  THEMES[((idx + 1) % Len(THEMES)) + 1]

getSystemTheme == IF osDark THEN "dark" ELSE "light"

\* localStorage.getItem("joinTheme") || "device", for an item `item`
OrDevice(item) == IF item = NoItem THEN "device" ELSE item

\* theme === "device" ? getSystemTheme() : theme
ResolveTheme(theme) == IF theme = "device" THEN getSystemTheme ELSE theme


\* ---------------------------------------------------------------- theme-service.js
\* The code of one handler runs to completion; it is composed here from operators
\* on a record w of the state the service reads and writes:
\*   attempted  the observable steps the running call has reached
\*   exc        an exception is propagating
World ==
  [joinTheme |-> joinTheme, dataTheme |-> dataTheme,
   systemThemeListener |-> systemThemeListener, mqlListeners |-> mqlListeners,
   effects |-> <<>>, attempted |-> {}, exc |-> FALSE]

Throw(w) == [w EXCEPT !.exc = TRUE]

\* localStorage.setItem("joinTheme", theme): throws unless the storage is writable
storeTheme(w, theme, call) ==
  LET tried == [w EXCEPT !.attempted = @ \cup {"setItem"}]
  IN  IF storageMode = "ok"
      THEN [tried EXCEPT !.joinTheme = theme,
                         !.effects = Append(@, [op |-> "setItem", v |-> theme, call |-> call])]
      ELSE Throw(tried)

applyThemeToDocument(w, theme, resolved, call) ==
  LET stored == storeTheme(w, theme, call)
  IN  IF stored.exc THEN stored
      ELSE [stored EXCEPT !.dataTheme = resolved, !.attempted = @ \cup {"setAttribute"}]

syncSettingsWithServiceWorker_postsArgument(w, call) ==
  LET tried == [w EXCEPT !.attempted = @ \cup {"postMessage"}]
  IN  IF storageMode = "denied" THEN Throw(tried)
      ELSE IF ~hasController THEN tried
      ELSE [tried EXCEPT !.effects =
              Append(@, [op |-> "postMessage", v |-> call[2], call |-> call])]

\* the payload is read from storage when the message is built; without a controlling
\* worker (controller?.postMessage) nothing is posted
syncSettingsWithServiceWorker(w, call) ==
  LET tried == [w EXCEPT !.attempted = @ \cup {"postMessage"}]
  IN  IF storageMode = "denied" THEN Throw(tried)
      ELSE IF ~hasController THEN tried
      ELSE [tried EXCEPT !.effects =
              Append(@, [op |-> "postMessage", v |-> OrDevice(w.joinTheme), call |-> call])]

\* window.matchMedia("(prefers-color-scheme: dark)"): every call returns a new
\* MediaQueryList object, which carries no listener yet. Listeners belong to the
\* object they were added to, and an object that has listeners stays alive and
\* receives "change" although the page holds no reference to it.
matchMedia == [listeners |-> {}]
addEventListener(mql, listener) == [mql EXCEPT !.listeners = @ \cup {listener}]
removeEventListener(mql, listener) == [mql EXCEPT !.listeners = @ \ {listener}]

\* the MediaQueryList objects that carry handleSystemThemeChange, after the page
\* has let go of `mql`
WithMediaQueryList(w, mql) ==
  [w EXCEPT !.mqlListeners = @ + Cardinality(mql.listeners)]

\* the removal is made on the object this call of matchMedia creates
removeExistingListener(w) ==
  IF w.systemThemeListener
  THEN LET mql == removeEventListener(matchMedia, "handleSystemThemeChange")
       IN  [WithMediaQueryList(w, mql) EXCEPT !.systemThemeListener = FALSE]
  ELSE w

attachMediaQueryListener(w) ==
  WithMediaQueryList(w, addEventListener(matchMedia, "handleSystemThemeChange"))

setupSystemThemeListener(w) ==
  LET removed == removeExistingListener(w)
  IN  IF storageMode = "denied" THEN Throw(removed)
      ELSE IF OrDevice(removed.joinTheme) # "device" THEN removed
      ELSE attachMediaQueryListener([removed EXCEPT !.systemThemeListener = TRUE])

\* one run of the change listener; event.matches is the new OS value
handleSystemThemeChange(w, matches) ==
  LET newSystemTheme == IF matches THEN "dark" ELSE "light"
      marked == [w EXCEPT !.dataTheme = newSystemTheme]
  IN  syncSettingsWithServiceWorker(marked, <<"handleSystemThemeChange", newSystemTheme>>)

\* applyTheme up to its await: the steps before the 100 ms timer is started
applyThemeBegin(w, theme) ==
  applyThemeToDocument(w, theme, ResolveTheme(theme), <<"applyTheme", theme>>)

\* applyTheme after its await
applyThemeEnd(w, theme) ==
  LET synced == syncSettingsWithServiceWorker(w, <<"applyTheme", theme>>)
  IN  IF synced.exc THEN synced ELSE setupSystemThemeListener(synced)

applyThemeWithoutIcons(w, theme) ==
  LET call == <<"applyThemeWithoutIcons", theme>>
      applied == applyThemeToDocument(w, theme, ResolveTheme(theme), call)
      synced == IF applied.exc THEN applied ELSE syncSettingsWithServiceWorker(applied, call)
  IN  IF synced.exc THEN synced ELSE setupSystemThemeListener(synced)

\* the state a handler leaves behind
Commit(w) ==
  /\ joinTheme' = w.joinTheme
  /\ dataTheme' = w.dataTheme
  /\ systemThemeListener' = w.systemThemeListener
  /\ mqlListeners' = w.mqlListeners
  /\ effects' = w.effects

Returned(fn, w, thrown) == [fn |-> fn, attempted |-> w.attempted, thrown |-> thrown]

\* ---------------------------------------------------------------- the page: actions
ThemeInit ==
  /\ storageMode \in StorageModes
  /\ joinTheme \in {NoItem} \cup StoredStrings
  /\ osDark \in BOOLEAN
  /\ hasController \in BOOLEAN
  /\ loaded = FALSE
  /\ onLoadPending = FALSE
  /\ toggleWired = FALSE
  /\ dataTheme = Unset
  /\ systemThemeListener = FALSE
  /\ mqlListeners = 0
  /\ pendingApply = <<>>
  /\ effects = <<>>
  /\ lastApply = NoCall
  /\ handlerRuns = 0

\* the values SpecFn's variables keep under Spec
FnIdle ==
  /\ fnCall = "none"
  /\ tasks = NullTasks
  /\ stats = NoStats
  /\ rotation = <<>>
  /\ realTheme = Pending

\* ui-helpers.js constants; time is counted in ticks of 250 ms
BREAKPOINT_MOBILE_DESKTOP == 1080
debounceMs == 2
NoTimer == -1
NoBurst == -1

\* the values SpecResize's variables keep under the other specifications
ResizeIdle ==
  /\ innerWidth = 1200
  /\ isMobileView = FALSE
  /\ resizeListening = FALSE
  /\ resizeTimeout = NoTimer
  /\ quiet = debounceMs
  /\ burstFrom = NoBurst
  /\ callbacks = 0
  /\ fired = FALSE
  /\ layoutShown = "none"

NoHandler ==
  [pc |-> "none", profile |-> "pending", tasks |-> "pending", shown |-> NoStats,
   log |-> <<>>, thrown |-> FALSE]

\* the values SpecDash's variables keep under the other specifications
DashIdle ==
  /\ authUser = FALSE
  /\ subscribed = FALSE
  /\ lastNotified = "none"
  /\ splashHidden = FALSE
  /\ currentUserData = FALSE
  /\ handlers = <<>>
  /\ hideTimers = <<>>
  /\ statsShown = NoStats
  /\ ended = NoHandler
  /\ hiddenBy = NoHandler

Tabs == 1..MaxTabs

\* the values SpecLifecycle's variables keep under the other specifications
LifecycleIdle ==
  /\ swVariant = "template"
  /\ swState = "parsed"
  /\ skipWaitingFlag = FALSE
  /\ installPending = FALSE
  /\ activatePc = "none"
  /\ keysSnapshot = {}
  /\ claimState = "none"
  /\ cacheKeys = {}
  /\ keysBefore = {}
  /\ controllerOf = [t \in Tabs |-> "none"]

\* the update checker before its module is evaluated
UpdateIdle ==
  /\ appVersion = NoItem
  /\ currentVersion = "0"
  /\ swListening = FALSE
  /\ handled = 0
  /\ storedBefore = NoItem
  /\ swMessage = NoItem
  /\ raised = NoItem

NullPrompt == 0
PromptEvents == 1..MaxPrompts
\* the install prompt manager before any beforeinstallprompt event
InstallIdle ==
  /\ deferredPrompt = NullPrompt
  /\ canShowInstallPrompt = FALSE
  /\ promptCalls = [e \in PromptEvents |-> 0]
  /\ awaitingChoice = <<>>
  /\ eventsFired = 0
  /\ lastReturn = "none"

NoUser == "<none>"
\* the landing page before its module is evaluated
LandingIdle ==
  /\ landingVariant = "splash"
  /\ landingPc = "loading"
  /\ hasRedirected = FALSE
  /\ redirectUser = NoUser
  /\ locationHref = "index"
  /\ redirectCount = 0
  /\ authSeen = <<>>
  /\ landingSplashHidden = FALSE

Seg(name, ext) == [name |-> name, ext |-> ext]
NoRequest ==
  [method |-> "GET", destination |-> "", mode |-> "cors", origin |-> "", pathname |-> <<>>,
   inManifest |-> FALSE]
NoRoute == [route |-> "none", strategy |-> "none", cacheName |-> "none"]

\* the router before any fetch event
RoutingIdle ==
  /\ swRouter = "template"
  /\ fetchRequest = NoRequest
  /\ fetchPc = "pending"
  /\ matching = {}
  /\ response = NoRoute
  /\ strategyPc = "idle"
  /\ cached = FALSE
  /\ netResult = "pending"
  /\ timerFired = FALSE
  /\ fetchOutcome = "none"
  /\ cacheConsulted = FALSE
  /\ cachePopulated = FALSE

\* a key without an entry, and an entry's value
Absent == [absent |-> TRUE]
Stored(value) == [value |-> value]
StoreKeys == {"joinTheme", "sw-version"}
EmptyStore == [key \in StoreKeys |-> Absent]
NoTx == [type |-> "none", payload |-> <<>>, requests |-> <<>>]
NoMessage == [type |-> "none", version |-> "", to |-> 0]
NoSync == [payload |-> <<>>, state |-> "none"]

\* the worker with no message received and a fresh settings database
MessagesIdle ==
  /\ settingsStore = EmptyStore
  /\ openQueue = <<>>
  /\ txQueue = <<>>
  /\ matchQueue = <<>>
  /\ inbox = [t \in Tabs |-> <<>>]
  /\ sent = 0
  /\ swClients = {}
  /\ lastCommit = NoTx
  /\ notified = {}
  /\ lastDelivered = NoMessage
  /\ swLog = ""
  /\ lastSync = NoSync

Env == <<storageMode, osDark, hasController>>

\* a step that runs no code of the theme service's apply path
Untouched ==
  /\ effects' = <<>>
  /\ lastApply' = NoCall
  /\ UNCHANGED <<joinTheme, dataTheme, systemThemeListener, mqlListeners>>

\* setupThemeToggle: reads the stored theme for the icon, then adds the click listener
\* (adding the same function to the same button twice keeps one listener)
setupThemeToggle == IF storageMode = "denied" THEN toggleWired ELSE TRUE

\* module evaluation: initializeThemeService(); readyState is "loading" or later
InitializeThemeService ==
  /\ ~loaded
  /\ loaded' = TRUE
  /\ \E readyStateLoading \in BOOLEAN :
       IF storageMode = "denied"
       THEN \* getItem throws inside the try: logged, nothing applied
            /\ Untouched
            /\ onLoadPending' = FALSE
            /\ UNCHANGED toggleWired
       ELSE LET theme == OrDevice(joinTheme)
                w == applyThemeWithoutIcons(World, theme)
            IN  /\ Commit(w)
                /\ lastApply' = Returned("applyThemeWithoutIcons", w, w.exc)
                /\ onLoadPending' = (~w.exc /\ readyStateLoading)
                /\ toggleWired' = IF ~w.exc /\ ~readyStateLoading THEN setupThemeToggle
                                  ELSE toggleWired
  /\ handlerRuns' = 0
  /\ UNCHANGED <<Env, pendingApply, notTheme>>

\* the DOMContentLoaded callback registered by initializeThemeService: setupThemeOnLoad
DOMContentLoaded ==
  /\ onLoadPending
  /\ onLoadPending' = FALSE
  /\ toggleWired' = setupThemeToggle
  /\ Untouched
  /\ handlerRuns' = 0
  /\ UNCHANGED <<Env, loaded, pendingApply, notTheme>>

\* header__init.js calls setupThemeToggle() once the header template is in the page
HeaderInit ==
  /\ loaded
  /\ ~toggleWired
  /\ toggleWired' = setupThemeToggle
  /\ Untouched
  /\ handlerRuns' = 0
  /\ UNCHANGED <<Env, loaded, onLoadPending, pendingApply, notTheme>>

\* applyTheme(theme) up to its await; a throw is caught by applyTheme's own catch
ApplyThemeCall(theme) ==
  LET w == applyThemeBegin(World, theme)
  IN  /\ Commit(w)
      /\ IF w.exc
         THEN /\ lastApply' = Returned("applyTheme", w, FALSE)
              /\ UNCHANGED pendingApply
         ELSE /\ pendingApply' = Append(pendingApply, [theme |-> theme, attempted |-> w.attempted])
              /\ lastApply' = NoCall

\* click on #headerThemeBtn: handleThemeToggle -> setTheme(next) -> applyTheme(next);
\* the read of the stored theme is outside every try
HandleThemeToggle ==
  /\ toggleWired
  /\ Len(pendingApply) < MaxPending
  /\ IF storageMode = "denied"
     THEN /\ Untouched
          /\ UNCHANGED pendingApply
     ELSE ApplyThemeCall(getNextTheme(OrDevice(joinTheme)))
  /\ handlerRuns' = 0
  /\ UNCHANGED <<Env, loaded, onLoadPending, toggleWired, notTheme>>

\* the exported setTheme(theme) / applyTheme(theme), called with a theme of THEMES
SetTheme ==
  /\ loaded
  /\ Len(pendingApply) < MaxPending
  /\ \E theme \in ThemeSet : ApplyThemeCall(theme)
  /\ handlerRuns' = 0
  /\ UNCHANGED <<Env, loaded, onLoadPending, toggleWired, notTheme>>

\* the 100 ms timer of updateSummaryIconsForTheme fires (timers of equal delay fire in
\* the order they were set) and the oldest suspended applyTheme runs to its end
ApplyThemeResume ==
  /\ pendingApply # <<>>
  /\ mqlListeners < MaxListeners
  /\ LET call == Head(pendingApply)
         w == applyThemeEnd([World EXCEPT !.attempted = call.attempted], call.theme)
     IN  /\ Commit(w)
         /\ lastApply' = Returned("applyTheme", w, FALSE)
  /\ pendingApply' = Tail(pendingApply)
  /\ handlerRuns' = 0
  /\ UNCHANGED <<Env, loaded, onLoadPending, toggleWired, notTheme>>

\* the exported applyThemeWithoutIcons(theme): no try/catch of its own
ApplyThemeWithoutIconsCall ==
  /\ loaded
  /\ mqlListeners < MaxListeners
  /\ \E theme \in ThemeSet :
       LET w == applyThemeWithoutIcons(World, theme)
       IN  /\ Commit(w)
           /\ lastApply' = Returned("applyThemeWithoutIcons", w, w.exc)
  /\ handlerRuns' = 0
  /\ UNCHANGED <<Env, loaded, onLoadPending, toggleWired, pendingApply, notTheme>>

\* the exported setupSystemThemeListener()
SetupSystemThemeListenerCall ==
  /\ loaded
  /\ mqlListeners < MaxListeners
  /\ Commit(setupSystemThemeListener(World))
  /\ lastApply' = NoCall
  /\ handlerRuns' = 0
  /\ UNCHANGED <<Env, loaded, onLoadPending, toggleWired, pendingApply, notTheme>>

\* the exported removeSystemThemeListener()
RemoveSystemThemeListenerCall ==
  /\ loaded
  /\ Commit(removeExistingListener(World))
  /\ lastApply' = NoCall
  /\ handlerRuns' = 0
  /\ UNCHANGED <<Env, loaded, onLoadPending, toggleWired, pendingApply, notTheme>>

\* n runs of the change listener, one per MediaQueryList object that carries it
RECURSIVE RunListeners(_, _, _)
RunListeners(w, matches, n) ==
  IF n = 0 THEN w ELSE RunListeners(handleSystemThemeChange(w, matches), matches, n - 1)

\* the OS color scheme flips; the browser dispatches "change" to every MediaQueryList
\* of the query that has listeners
SystemThemeChange ==
  /\ osDark' = ~osDark
  /\ handlerRuns' = mqlListeners
  /\ Commit(RunListeners(World, ~osDark, mqlListeners))
  /\ lastApply' = NoCall
  /\ UNCHANGED <<storageMode, hasController, loaded, onLoadPending, toggleWired,
                 pendingApply, notTheme>>

\* the theme service before its module is evaluated, with writable storage
ThemeIdle ==
  /\ storageMode = "ok"
  /\ hasController = FALSE
  /\ loaded = FALSE
  /\ onLoadPending = FALSE
  /\ toggleWired = FALSE
  /\ dataTheme = Unset
  /\ systemThemeListener = FALSE
  /\ mqlListeners = 0
  /\ pendingApply = <<>>
  /\ effects = <<>>
  /\ lastApply = NoCall
  /\ handlerRuns = 0

\* the parts of the page and the worker that a specification does not exercise
Idle(parts) ==
  /\ "theme" \in parts => ThemeIdle /\ joinTheme = NoItem /\ osDark = FALSE
  /\ "fn" \in parts => FnIdle
  /\ "resize" \in parts => ResizeIdle
  /\ "dash" \in parts => DashIdle
  /\ "lifecycle" \in parts => LifecycleIdle
  /\ "messages" \in parts => MessagesIdle
  /\ "routing" \in parts => RoutingIdle
  /\ "landing" \in parts => LandingIdle
  /\ "install" \in parts => InstallIdle
  /\ "update" \in parts => UpdateIdle

Init == ThemeInit /\ Idle({"fn", "resize", "dash", "lifecycle", "messages", "routing", "landing", "install", "update"})

Next ==
  \/ InitializeThemeService
  \/ DOMContentLoaded
  \/ HeaderInit
  \/ HandleThemeToggle
  \/ SetTheme
  \/ ApplyThemeResume
  \/ ApplyThemeWithoutIconsCall
  \/ SetupSystemThemeListenerCall
  \/ RemoveSystemThemeListenerCall
  \/ SystemThemeChange

Spec == Init /\ [][Next]_vars

\* ---------------------------------------------------------------- summary-tasks.js
\* A task record as the data layer hands it over. A field the document lacks is
\* NoField. "archived" stands for any status that is none of the counted spellings,
\* "soon" for any string new Date() cannot parse.
Task(status, priority, prio, dueDate) ==
  [status |-> status, priority |-> priority, prio |-> prio, dueDate |-> dueDate]

Statuses ==
  {"todo", "to-do", "in-progress", "progress", "awaiting-feedback", "await", "done",
   "archived"}
DueDates == {NoField, "2024-01-02", "2024-01-02T00:00:00.000Z", "2024-01-05", "soon"}

TaskPool ==
  {Task(s, "medium", NoField, NoField) : s \in Statuses}
    \cup {Task("todo", "urgent", NoField, d) : d \in DueDates}
    \cup {Task("todo", NoField, "Urgent", d) : d \in {"2024-01-02", "2024-01-05"}}
    \cup {Task("done", "urgent", NoField, "2024-01-02"),
          Task("todo", "low", NoField, "2024-01-02")}

TaskLists == UNION {[1..n -> TaskPool] : n \in 0..MaxTasks}
TaskArgs == {NullTasks} \cup {Array(l) : l \in TaskLists}

\* new Date(dueDate): the time value in days since the epoch; Invalid Date (NaN)
\* for a string that is no date
IsInvalidDate(dueDate) ==
  dueDate \notin {"2024-01-02", "2024-01-02T00:00:00.000Z", "2024-01-05"}
DateValue(dueDate) ==
  CASE dueDate = "2024-01-02" -> 19724
    [] dueDate = "2024-01-02T00:00:00.000Z" -> 19724
    [] dueDate = "2024-01-05" -> 19727

\* (a, b) => new Date(a.dueDate) - new Date(b.dueDate), as sort reads it: a NaN
\* result counts as +0
CompareDue(a, b) ==
  IF IsInvalidDate(a.dueDate) \/ IsInvalidDate(b.dueDate) THEN 0
  ELSE DateValue(a.dueDate) - DateValue(b.dueDate)

\* ECMAScript's "consistent comparison function" for the elements of seq
ConsistentCompare(seq) ==
  \A i, j, k \in 1..Len(seq) :
    LET ij == CompareDue(seq[i], seq[j])
        jk == CompareDue(seq[j], seq[k])
        ik == CompareDue(seq[i], seq[k])
    IN  /\ (ij = 0 /\ jk = 0) => ik = 0
        /\ (ij < 0 /\ jk < 0) => ik < 0
        /\ (ij > 0 /\ jk > 0) => ik > 0
        /\ ij = 0 => CompareDue(seq[j], seq[i]) = 0
        /\ ij < 0 => CompareDue(seq[j], seq[i]) > 0

\* x put behind every element that does not compare greater than it
InsertStable(sorted, x) ==
  LET after == {i \in 1..Len(sorted) : CompareDue(sorted[i], x) > 0}
      at == IF after = {} THEN Len(sorted) + 1
            ELSE CHOOSE i \in after : \A j \in after : i <= j
  IN  SubSeq(sorted, 1, at - 1) \o <<x>> \o SubSeq(sorted, at, Len(sorted))

RECURSIVE SortStable(_)
SortStable(seq) ==
  IF seq = <<>> THEN <<>>
  ELSE InsertStable(SortStable(SubSeq(seq, 1, Len(seq) - 1)), seq[Len(seq)])

\* Array.prototype.sort(compareFn): the stable ascending order for a consistent
\* compareFn, an implementation-defined order of the same elements otherwise
SortOutcomes(seq) ==
  IF ConsistentCompare(seq) THEN {SortStable(seq)}
  ELSE {[i \in 1..Len(seq) |-> seq[f[i]]] :
          f \in {g \in [1..Len(seq) -> 1..Len(seq)] :
                   \A a, b \in 1..Len(seq) : a # b => g[a] # g[b]}}

IsUrgent(t) == t.priority = "urgent" \/ t.prio = "Urgent"
HasDueDate(t) == t.dueDate # NoField

\* the filter of getNextUrgentDeadline (Array.prototype.filter is SelectSeq)
IsUrgentOpen(t) == IsUrgent(t) /\ HasDueDate(t) /\ t.status # "done"

\* the values getNextUrgentDeadline(tasks) can return
getNextUrgentDeadline(list) ==
  LET urgentTasks == SelectSeq(list, IsUrgentOpen)
  IN  IF Len(urgentTasks) = 0 THEN {NullDate}
      ELSE {sorted[1].dueDate : sorted \in SortOutcomes(urgentTasks)}

getEmptyStats_totalOne ==
  [total |-> 1, todo |-> 0, done |-> 0, inProgress |-> 0, feedback |-> 0,
   urgent |-> 0, urgentDeadline |-> NullDate]

getEmptyStats ==
  [total |-> 0, todo |-> 0, done |-> 0, inProgress |-> 0, feedback |-> 0,
   urgent |-> 0, urgentDeadline |-> NullDate]

IsTodo_oneSpelling(t) == t.status = "todo"
IsTodo(t) == t.status = "todo" \/ t.status = "to-do"
IsDone_orArchived(t) == t.status = "done" \/ t.status = "archived"
IsDone(t) == t.status = "done"
IsInProgress(t) == t.status = "in-progress" \/ t.status = "progress"
IsFeedback(t) == t.status = "awaiting-feedback" \/ t.status = "await"

\* the values calculateStats(tasks) can return
calculateStats(arg) ==
  IF arg = NullTasks \/ Len(arg.items) = 0 THEN {getEmptyStats}
  ELSE LET list == arg.items
       IN  {[total |-> Len(list),
             todo |-> Len(SelectSeq(list, IsTodo)),
             done |-> Len(SelectSeq(list, IsDone)),
             inProgress |-> Len(SelectSeq(list, IsInProgress)),
             feedback |-> Len(SelectSeq(list, IsFeedback)),
             urgent |-> Len(SelectSeq(list, IsUrgent)),
             urgentDeadline |-> d] : d \in getNextUrgentDeadline(list)}

\* ---------------------------------------------------------------- pure functions: SpecFn
getRealTheme_storedTheme == OrDevice(joinTheme)

\* summary-layout.js: the stored preference (or device), resolved
getRealTheme == ResolveTheme(OrDevice(joinTheme))

FnInit ==
  /\ ThemeIdle
  /\ Idle({"resize", "dash", "lifecycle", "messages", "routing", "landing", "install", "update"})
  /\ stats = NoStats
  /\ realTheme = Pending
  /\ fnCall \in {"calculateStats", "getNextTheme", "getRealTheme"}
  /\ IF fnCall = "calculateStats"
     THEN tasks \in TaskArgs
     ELSE tasks = NullTasks
  /\ IF fnCall = "getNextTheme"
     THEN \E current \in StoredStrings : rotation = <<current>>
     ELSE rotation = <<>>
  /\ IF fnCall = "getRealTheme"
     THEN joinTheme \in {NoItem} \cup StoredStrings /\ osDark \in BOOLEAN
     ELSE joinTheme = NoItem /\ osDark = FALSE

CalculateStats ==
  /\ fnCall = "calculateStats"
  /\ stats = NoStats
  /\ stats' \in calculateStats(tasks)
  /\ UNCHANGED <<notFn, fnCall, tasks, rotation, realTheme>>

\* getNextTheme applied to its own result
Rotate ==
  /\ fnCall = "getNextTheme"
  /\ Len(rotation) <= MaxRotations
  /\ rotation' = Append(rotation, getNextTheme(rotation[Len(rotation)]))
  /\ UNCHANGED <<notFn, fnCall, tasks, stats, realTheme>>

GetRealTheme ==
  /\ fnCall = "getRealTheme"
  /\ realTheme = Pending
  /\ realTheme' = getRealTheme
  /\ UNCHANGED <<notFn, fnCall, tasks, stats, rotation>>

FnNext == CalculateStats \/ Rotate \/ GetRealTheme

SpecFn == FnInit /\ [][FnNext]_vars

\* ---------------------------------------------------------------- ui-helpers.js: SpecResize
Widths == {800, 1079, 1080, 1081}

\* window.innerWidth < BREAKPOINT_MOBILE_DESKTOP
IsMobileWidth(width) == width < BREAKPOINT_MOBILE_DESKTOP

\* summary-layout.js: window.innerWidth <= 1080 ? buildMobileLayout : buildDesktopLayout
buildSummaryLayoutHTML(width) == IF width <= 1080 THEN "mobile" ELSE "desktop"

\* ui-helpers.js is evaluated when the page's module graph is loaded: isMobileView is
\* taken from the width of that moment; no listener is installed yet
ResizeInit ==
  /\ Idle({"theme", "fn", "dash", "lifecycle", "messages", "routing", "landing", "install", "update"})
  /\ innerWidth \in Widths
  /\ isMobileView = IsMobileWidth(innerWidth)
  /\ resizeListening = FALSE
  /\ resizeTimeout = NoTimer
  /\ quiet = debounceMs
  /\ burstFrom = NoBurst
  /\ callbacks = 0
  /\ fired = FALSE
  /\ layoutShown = "none"

\* initSummary renders the layout for the width of the moment (setupInitialLayout)
\* and reaches setupResizeListener(), after its awaits:
\* setupResizeListenerOnWidthChange adds the resize listener
SetupResizeListener ==
  /\ ~resizeListening
  /\ resizeListening' = TRUE
  /\ layoutShown' = buildSummaryLayoutHTML(innerWidth)
  /\ callbacks' = 0
  /\ fired' = FALSE
  /\ UNCHANGED <<innerWidth, isMobileView, resizeTimeout, quiet, burstFrom, notResize>>

\* the window is resized to `width` (the same width: a change of height only) and
\* a resize event is dispatched; the listener, if installed, clears its timer and
\* sets a new one
Resize(width) ==
  /\ innerWidth' = width
  /\ quiet' = 0
  /\ IF resizeListening
     THEN /\ resizeTimeout' = debounceMs
          /\ burstFrom' = IF resizeTimeout = NoTimer THEN innerWidth ELSE burstFrom
     ELSE UNCHANGED <<resizeTimeout, burstFrom>>
  /\ callbacks' = 0
  /\ fired' = FALSE
  /\ UNCHANGED <<isMobileView, resizeListening, layoutShown, notResize>>

\* 250 ms pass; a timer that is due may still wait for the event loop
Tick ==
  /\ quiet < debounceMs \/ resizeTimeout > 0
  /\ quiet' = IF quiet < debounceMs THEN quiet + 1 ELSE quiet
  /\ resizeTimeout' = IF resizeTimeout > 0 THEN resizeTimeout - 1 ELSE resizeTimeout
  /\ callbacks' = 0
  /\ fired' = FALSE
  /\ UNCHANGED <<innerWidth, isMobileView, resizeListening, burstFrom, layoutShown,
                 notResize>>

\* the listener's timer fires: handleWindowResize(onViewportModeChange)
handleWindowResize ==
  LET currentWidth == innerWidth
      isCurrentlyMobile == IsMobileWidth(currentWidth)
  IN  IF isCurrentlyMobile # isMobileView
      THEN /\ isMobileView' = isCurrentlyMobile
           /\ callbacks' = 1
      ELSE /\ UNCHANGED isMobileView
           /\ callbacks' = 0

\* the summary page's callback (onWidthChange) re-renders the layout:
\* renderSummaryLayout -> buildSummaryLayoutHTML()
ResizeTimeout ==
  /\ resizeTimeout = 0
  /\ resizeTimeout' = NoTimer
  /\ handleWindowResize
  /\ layoutShown' = IF callbacks' = 1 THEN buildSummaryLayoutHTML(innerWidth)
                    ELSE layoutShown
  /\ fired' = TRUE
  /\ UNCHANGED <<innerWidth, resizeListening, quiet, burstFrom, notResize>>

ResizeNext ==
  \/ SetupResizeListener
  \/ \E width \in Widths : Resize(width)
  \/ Tick
  \/ ResizeTimeout

SpecResize == ResizeInit /\ [][ResizeNext]_vars

\* ---------------------------------------------------------------- summary__init.js: SpecDash
\* One call of handleAuthUserChange:
\*   pc       the await it is suspended at ("profile", "tasks"), or "done"
\*   profile  outcome of the profile fetch: "pending" | "fetched" | "failed"
\*   tasks    outcome of the task list fetch: "pending" | "fetched" | "failed" |
\*            "skipped" (no user is authenticated when loadTaskStats runs)
\*   shown    the statistics its displayTaskStats put on the page
\*   log      its steps so far, in order
\*   thrown   an exception left it (caught and logged by the onAuthChange callback)
NewHandler ==
  [pc |-> "profile", profile |-> "pending", tasks |-> "pending", shown |-> NoStats,
   log |-> <<>>, thrown |-> FALSE]

\* what getUserTasks(user.uid) settles with: a task list, or a rejection
DashTaskLists == {<<>>, <<Task("todo", "urgent", NoField, "2024-01-02")>>}
TaskOutcomes ==
  {[kind |-> "failed", items |-> <<>>]}
    \cup {[kind |-> "fetched", items |-> l] : l \in DashTaskLists}
NoUserOutcome == [kind |-> "skipped", items |-> <<>>]
\* what the fetch of loadCurrentUserData settles with (a missing document is null)
ProfileOutcomes == {"data", "null", "failed"}

\* splash.service.js showSplash
showSplash == splashHidden' = FALSE

\* updateCurrentUserData after its await: loadCurrentUserData has caught a failed
\* fetch and returned null
updateCurrentUserData(h, outcome) ==
  [h EXCEPT !.profile = IF outcome = "failed" THEN "failed" ELSE "fetched",
            !.log = Append(@, "profile")]

\* await displayGreeting(currentUserData); initHeader(currentUserData)
displayGreeting(h) == [h EXCEPT !.log = Append(@, "greeting")]
initHeader(h) == [h EXCEPT !.log = Append(@, "header")]

\* displayTaskStats(tasks), st being the result of calculateStats(tasks):
\* updateTaskStatsUI(st)
displayTaskStats(h, st) == [h EXCEPT !.shown = st, !.log = @ \o <<"stats", "dom">>]

\* the argument loadTaskStats hands to displayTaskStats: null without a user and in
\* its catch, the fetched list otherwise
loadTaskStatsArg(outcome) ==
  IF outcome.kind = "fetched" THEN Array(outcome.items) ELSE NullTasks

loadTaskStats_noCatch(h, outcome, st) ==
  LET settled == [h EXCEPT !.tasks = outcome.kind,
                           !.log = IF outcome.kind = "skipped" THEN @ ELSE Append(@, "tasks")]
  IN  IF outcome.kind = "failed" THEN [settled EXCEPT !.thrown = TRUE]
      ELSE displayTaskStats(settled, st)

\* loadTaskStats from the point its fetch has settled (or, without a user, from its
\* start): every path ends in displayTaskStats
loadTaskStats(h, outcome, st) ==
  LET settled == [h EXCEPT !.tasks = outcome.kind,
                           !.log = IF outcome.kind = "skipped" THEN @ ELSE Append(@, "tasks")]
  IN  displayTaskStats(settled, st)

showGreetingElements(h) == [h EXCEPT !.log = Append(@, "showGreeting")]

\* hideSplashDelayed(800): sets the timer that hides the splash
hideSplashDelayed(h) == [h EXCEPT !.log = Append(@, "hide"), !.pc = "done"]

handleAuthUserChangeEnd_notAwaited(h, outcome, st) ==
  loadTaskStats(hideSplashDelayed(showGreetingElements(h)), outcome, st)

\* handleAuthUserChange from `await loadTaskStats()` on
handleAuthUserChangeEnd(h, outcome, st) ==
  LET stats_ == loadTaskStats(h, outcome, st)
  IN  IF stats_.thrown THEN [stats_ EXCEPT !.pc = "done"]
      ELSE hideSplashDelayed(showGreetingElements(stats_))

\* what a call that has run to its end leaves behind
HandlerEnds(h) ==
  /\ ended' = h
  /\ statsShown' = IF h.shown # NoStats THEN h.shown ELSE statsShown
  /\ hideTimers' = IF \E k \in 1..Len(h.log) : h.log[k] = "hide"
                   THEN Append(hideTimers, h) ELSE hideTimers

RemoveAt(seq, i) == SubSeq(seq, 1, i - 1) \o SubSeq(seq, i + 1, Len(seq))

\* the page before initSummary has run
DashInit ==
  /\ Idle({"theme", "fn", "resize", "lifecycle", "messages", "routing", "landing", "install", "update"})
  /\ authUser \in BOOLEAN
  /\ subscribed = FALSE
  /\ lastNotified = "none"
  /\ splashHidden \in BOOLEAN
  /\ currentUserData = FALSE
  /\ handlers = <<>>
  /\ hideTimers = <<>>
  /\ statsShown = NoStats
  /\ ended = NoHandler
  /\ hiddenBy = NoHandler

\* initSummary: showSplash(), layout and greeting, then setupAuthChangeHandler
InitSummary ==
  /\ ~subscribed
  /\ showSplash
  /\ subscribed' = TRUE
  /\ ended' = NoHandler
  /\ hiddenBy' = NoHandler
  /\ UNCHANGED <<authUser, lastNotified, currentUserData, handlers, hideTimers,
                 statsShown, notDash>>

\* the onAuthChange callback is called with a user: handleAuthUserChange starts and
\* suspends at the profile fetch of loadCurrentUserData
SignedIn ==
  /\ subscribed
  /\ Len(handlers) < MaxHandlers
  /\ authUser' = TRUE
  /\ lastNotified' = "user"
  /\ handlers' = Append(handlers, NewHandler)
  /\ ended' = NoHandler
  /\ hiddenBy' = NoHandler
  /\ UNCHANGED <<subscribed, splashHidden, currentUserData, hideTimers, statsShown,
                 notDash>>

\* the onAuthChange callback is called with null: showSplash()
SignedOut ==
  /\ subscribed
  /\ authUser' = FALSE
  /\ lastNotified' = "null"
  /\ showSplash
  /\ ended' = NoHandler
  /\ hiddenBy' = NoHandler
  /\ UNCHANGED <<subscribed, currentUserData, handlers, hideTimers, statsShown, notDash>>

\* the profile fetch of call i settles; the call runs on to loadTaskStats, which
\* fetches the task list if a user is authenticated now and displays null otherwise
ProfileSettled(i, outcome) ==
  /\ handlers[i].pc = "profile"
  /\ Len(hideTimers) < MaxHandlers
  /\ currentUserData' = (outcome = "data")
  /\ hiddenBy' = NoHandler
  /\ LET h == initHeader(displayGreeting(updateCurrentUserData(handlers[i], outcome)))
     IN  IF authUser
         THEN /\ handlers' = [handlers EXCEPT ![i] = [h EXCEPT !.pc = "tasks"]]
              /\ ended' = NoHandler
              /\ UNCHANGED <<hideTimers, statsShown>>
         ELSE /\ handlers' = RemoveAt(handlers, i)
              /\ \E st \in calculateStats(loadTaskStatsArg(NoUserOutcome)) :
                   HandlerEnds(handleAuthUserChangeEnd(h, NoUserOutcome, st))
  /\ UNCHANGED <<authUser, subscribed, lastNotified, splashHidden, notDash>>

\* the task list fetch of call i settles; the call runs to its end
TasksSettled(i, outcome) ==
  /\ handlers[i].pc = "tasks"
  /\ Len(hideTimers) < MaxHandlers
  /\ handlers' = RemoveAt(handlers, i)
  /\ hiddenBy' = NoHandler
  /\ \E st \in calculateStats(loadTaskStatsArg(outcome)) :
       HandlerEnds(handleAuthUserChangeEnd(handlers[i], outcome, st))
  /\ UNCHANGED <<authUser, subscribed, lastNotified, splashHidden, currentUserData,
                 notDash>>

\* the oldest timer of hideSplashDelayed fires: splash.classList.add("splash--hidden")
HideSplashTimeout ==
  /\ hideTimers # <<>>
  /\ splashHidden' = TRUE
  /\ hiddenBy' = Head(hideTimers)
  /\ hideTimers' = Tail(hideTimers)
  /\ ended' = NoHandler
  /\ UNCHANGED <<authUser, subscribed, lastNotified, currentUserData, handlers,
                 statsShown, notDash>>

DashNext ==
  \/ InitSummary
  \/ SignedIn
  \/ SignedOut
  \/ \E i \in 1..Len(handlers), outcome \in ProfileOutcomes : ProfileSettled(i, outcome)
  \/ \E i \in 1..Len(handlers), outcome \in TaskOutcomes : TasksSettled(i, outcome)
  \/ HideSplashTimeout

SpecDash == DashInit /\ [][DashNext]_vars

\* ---------------------------------------------------------------- service workers: SpecLifecycle
\* The three workers of the repository:
\*   "basic"      service-worker.js
\*   "lifecycle"  config/sw-lifecycle (setupLifecycle) with config/cache-config.js
\*   "template"   service-worker-template.js (Workbox precaching and routes)
Variants == {"basic", "lifecycle", "template"}

CACHE_NAME == "join-mpa-cache-v1"
\* Object.values(CACHE_NAMES); the template names the same caches in its routes
getAllowedCaches ==
  {"html-pages", "static-resources", "images", "fonts", "manifests", "firebase-storage",
   "firebase-firestore", "google-fonts", "api-cache", "navigations"}
\* workbox-precaching: the cache of the current precache manifest, and a precache
\* of an earlier Workbox format for the same scope
PrecacheName == "workbox-precache-v2-https://join/"
OutdatedPrecacheName == "workbox-precache-https://join/"

\* the cache names the worker's configuration uses
Configured(variant) ==
  CASE variant = "basic" -> {CACHE_NAME}
    [] variant = "lifecycle" -> getAllowedCaches
    [] variant = "template" -> getAllowedCaches \cup {PrecacheName}

\* the caches CacheStorage may hold when the worker is installed
KeyUniverse ==
  {CACHE_NAME, "join-mpa-cache-v0", "html-pages", "api-cache", PrecacheName,
   OutdatedPrecacheName}

\* the caches the activate handler deletes, of the names caches.keys() gave:
\*   basic      keys.filter((key) => key !== CACHE_NAME)
\*   lifecycle  !allowedCaches.includes(cacheName)
\*   template   its own listener deletes nothing; cleanupOutdatedCaches() of
\*              workbox-precaching deletes the outdated precaches of the scope
StaleKeys(variant, keys) ==
  CASE variant = "basic" -> {key \in keys : key # CACHE_NAME}
    [] variant = "lifecycle" -> {cacheName \in keys : cacheName \notin getAllowedCaches}
    [] variant = "template" -> {cacheName \in keys : cacheName = OutdatedPrecacheName}

installCallsSkipWaiting_never(variant) == FALSE

\* every install listener calls self.skipWaiting()
installCallsSkipWaiting(variant) == variant \in {"basic", "lifecycle", "template"}

\* the install event waits for a promise: caches.open + cache.addAll (basic), the
\* precache installation of precacheAndRoute (template)
installWaitsUntil(variant) == variant \in {"basic", "template"}

\* every activate listener calls self.clients.claim()
activateCallsClaim(variant) == variant \in {"basic", "lifecycle", "template"}

LifecycleInit ==
  /\ Idle({"theme", "fn", "resize", "dash", "messages", "routing", "landing", "install", "update"})
  /\ swVariant \in Variants
  /\ swState = "parsed"
  /\ skipWaitingFlag = FALSE
  /\ installPending = FALSE
  /\ activatePc = "none"
  /\ keysSnapshot = {}
  /\ claimState = "none"
  /\ cacheKeys \in SUBSET KeyUniverse
  /\ keysBefore = {}
  /\ controllerOf \in [Tabs -> {"none", "old"}]

\* the install event is dispatched and the listener runs
InstallEvent ==
  /\ swState = "parsed"
  /\ swState' = "installing"
  /\ skipWaitingFlag' = installCallsSkipWaiting(swVariant)
  /\ installPending' = installWaitsUntil(swVariant)
  /\ UNCHANGED <<swVariant, activatePc, keysSnapshot, claimState, cacheKeys, keysBefore,
                 controllerOf, notLifecycle>>

\* the promises of the install event settle: a rejection makes the worker redundant
InstallSettled(ok) ==
  /\ swState = "installing"
  /\ ok \/ installPending
  /\ swState' = IF ok THEN "installed" ELSE "redundant"
  /\ installPending' = FALSE
  /\ cacheKeys' = IF ok /\ swVariant = "basic" THEN cacheKeys \cup {CACHE_NAME}
                  ELSE IF ok /\ swVariant = "template" THEN cacheKeys \cup {PrecacheName}
                  ELSE cacheKeys
  /\ UNCHANGED <<swVariant, skipWaitingFlag, activatePc, keysSnapshot, claimState,
                 keysBefore, controllerOf, notLifecycle>>

\* the browser activates the waiting worker: at once with the skip-waiting flag,
\* otherwise when no tab is controlled by the old worker. The tabs of the old worker
\* pass to the new one; then the activate event is dispatched and the listener runs
ActivateEvent ==
  /\ swState = "installed"
  /\ skipWaitingFlag \/ \A t \in Tabs : controllerOf[t] # "old"
  /\ swState' = "activating"
  /\ controllerOf' = [t \in Tabs |-> IF controllerOf[t] = "old" THEN "new" ELSE controllerOf[t]]
  /\ keysBefore' = cacheKeys
  /\ activatePc' = "keys"
  /\ claimState' = IF activateCallsClaim(swVariant) THEN "requested" ELSE "none"
  /\ UNCHANGED <<swVariant, skipWaitingFlag, installPending, keysSnapshot, cacheKeys,
                 notLifecycle>>

\* caches.keys() resolves
CachesKeys ==
  /\ activatePc = "keys"
  /\ keysSnapshot' = cacheKeys
  /\ activatePc' = "delete"
  /\ UNCHANGED <<swVariant, swState, skipWaitingFlag, installPending, claimState,
                 cacheKeys, keysBefore, controllerOf, notLifecycle>>

\* the caches.delete calls resolve; the waitUntil promise settles and the worker is
\* activated
CachesDelete ==
  /\ activatePc = "delete"
  /\ cacheKeys' = cacheKeys \ StaleKeys(swVariant, keysSnapshot)
  /\ activatePc' = "done"
  /\ swState' = "activated"
  /\ UNCHANGED <<swVariant, skipWaitingFlag, installPending, keysSnapshot, claimState,
                 keysBefore, controllerOf, notLifecycle>>

\* clients.claim() resolves: every open tab in scope is controlled by this worker
ClaimSettled ==
  /\ claimState = "requested"
  /\ claimState' = "settled"
  /\ controllerOf' = [t \in Tabs |-> "new"]
  /\ UNCHANGED <<swVariant, swState, skipWaitingFlag, installPending, activatePc,
                 keysSnapshot, cacheKeys, keysBefore, notLifecycle>>

\* a route's strategy opens its cache for a response (the basic worker only reads)
RuntimeCaching(cacheName) ==
  /\ swVariant # "basic"
  /\ swState \in {"activating", "activated"}
  /\ cacheName \notin cacheKeys
  /\ cacheKeys' = cacheKeys \cup {cacheName}
  /\ UNCHANGED <<swVariant, swState, skipWaitingFlag, installPending, activatePc,
                 keysSnapshot, claimState, keysBefore, controllerOf, notLifecycle>>

LifecycleNext ==
  \/ InstallEvent
  \/ \E ok \in BOOLEAN : InstallSettled(ok)
  \/ ActivateEvent
  \/ CachesKeys
  \/ CachesDelete
  \/ ClaimSettled
  \/ \E cacheName \in {"html-pages", "api-cache"} : RuntimeCaching(cacheName)

SpecLifecycle == LifecycleInit /\ [][LifecycleNext]_vars

\* the browser dispatches the activate event of a worker that may activate, and the
\* promises of caches.keys(), caches.delete() and clients.claim() settle
SpecLifecycleLive ==
  /\ SpecLifecycle
  /\ WF_vars(ActivateEvent)
  /\ WF_vars(CachesKeys)
  /\ WF_vars(CachesDelete)
  /\ WF_vars(ClaimSettled)

\* ---------------------------------------------------------------- worker messages: SpecMessages
CACHE_VERSION == "18"
\* localStorage.getItem("joinTheme") || "device" of the pages that post SYNC_SETTINGS
SettingsPayloads == {<<[key |-> "joinTheme", value |-> theme]>> : theme \in ThemeSet}

\* the requests syncSettingsToWorker places in its transaction: store.clear(), then
\* store.put({key, value}) for each entry of Object.entries(settings)
syncRequests_noClear(entries) ==
  [i \in 1..Len(entries) |-> [op |-> "put", key |-> entries[i].key, value |-> entries[i].value]]

syncRequests(entries) ==
  <<[op |-> "clear", key |-> "", value |-> ""]>> \o
  [i \in 1..Len(entries) |-> [op |-> "put", key |-> entries[i].key, value |-> entries[i].value]]

\* the request storeVersionAndNotifyClients places in its transaction
versionRequests == <<[op |-> "put", key |-> "sw-version", value |-> CACHE_VERSION]>>

\* one request executed on the object store (keyPath 'key')
Execute(store, request) ==
  IF request.op = "clear" THEN EmptyStore
  ELSE [store EXCEPT ![request.key] = Stored(request.value)]

RECURSIVE ExecuteAll_lastFirst(_, _)
ExecuteAll_lastFirst(store, requests) ==
  IF requests = <<>> THEN store
  ELSE Execute(ExecuteAll_lastFirst(store, Tail(requests)), Head(requests))

RECURSIVE ExecuteAll(_, _)
ExecuteAll(store, requests) ==
  IF requests = <<>> THEN store
  ELSE ExecuteAll(Execute(store, Head(requests)), Tail(requests))

\* the store that holds exactly the entries of a payload
StoreOf(entries) ==
  [key \in StoreKeys |->
     IF \E i \in 1..Len(entries) : entries[i].key = key
     THEN Stored((CHOOSE e \in {entries[i] : i \in 1..Len(entries)} : e.key = key).value)
     ELSE Absent]

\* this step ran none of the worker's observable effects
Quiet ==
  /\ lastCommit' = NoTx
  /\ notified' = {}
  /\ lastDelivered' = NoMessage
  /\ swLog' = ""

MessagesInit ==
  /\ Idle({"theme", "fn", "resize", "dash", "lifecycle", "routing", "landing", "install", "update"})
  /\ settingsStore = EmptyStore
  /\ openQueue = <<>>
  /\ txQueue = <<>>
  /\ matchQueue = <<>>
  /\ inbox = [t \in Tabs |-> <<>>]
  /\ sent = 0
  /\ swClients \in SUBSET Tabs \ {{}}
  /\ lastCommit = NoTx
  /\ notified = {}
  /\ lastDelivered = NoMessage
  /\ swLog = ""
  /\ lastSync = NoSync

\* a controlled page posts SYNC_SETTINGS; the message listener calls
\* syncSettingsToWorker(settings), which suspends at await openSettingsDatabase()
SyncSettingsMessage(payload) ==
  /\ sent < MaxMessages
  /\ sent' = sent + 1
  /\ openQueue' = Append(openQueue, [type |-> "SYNC_SETTINGS", payload |-> payload])
  /\ lastSync' = [payload |-> payload, state |-> "posted"]
  /\ Quiet
  /\ UNCHANGED <<settingsStore, txQueue, matchQueue, inbox, swClients, notMessages>>

\* a controlled page posts CHECK_UPDATE (forceReloadApp); the message listener calls
\* storeVersionAndNotifyClients(), which suspends at await openSettingsDatabase()
CheckUpdateMessage ==
  /\ sent < MaxMessages
  /\ sent' = sent + 1
  /\ openQueue' = Append(openQueue, [type |-> "CHECK_UPDATE", payload |-> <<>>])
  /\ Quiet
  /\ UNCHANGED <<lastSync, settingsStore, txQueue, matchQueue, inbox, swClients, notMessages>>

\* the oldest indexedDB.open request settles and its handler resumes. The handler
\* creates its transaction and places its requests; awaiting an IDBRequest does not
\* wait for the request, so syncSettingsToWorker runs to its end here and
\* storeVersionAndNotifyClients runs on to await self.clients.matchAll()
DbOpened(ok) ==
  /\ openQueue # <<>>
  /\ openQueue' = Tail(openQueue)
  /\ LET handler == Head(openQueue)
     IN  IF ~ok
         THEN /\ swLog' = "failed"
              /\ UNCHANGED <<txQueue, matchQueue>>
         ELSE IF handler.type = "SYNC_SETTINGS"
         THEN /\ txQueue' = Append(txQueue, [type |-> "SYNC_SETTINGS",
                                             payload |-> handler.payload,
                                             requests |-> syncRequests(handler.payload)])
              /\ swLog' = "synced"
              /\ UNCHANGED matchQueue
         ELSE /\ txQueue' = Append(txQueue, [type |-> "CHECK_UPDATE",
                                             payload |-> <<>>,
                                             requests |-> versionRequests])
              /\ matchQueue' = Append(matchQueue, CACHE_VERSION)
              /\ swLog' = ""
  /\ lastSync' =
       IF /\ Head(openQueue).type = "SYNC_SETTINGS"
          /\ \A i \in 2..Len(openQueue) : openQueue[i].type # "SYNC_SETTINGS"
       THEN [lastSync EXCEPT !.state = IF ok THEN "placed" ELSE "failed"]
       ELSE lastSync
  /\ lastCommit' = NoTx
  /\ notified' = {}
  /\ lastDelivered' = NoMessage
  /\ UNCHANGED <<settingsStore, inbox, sent, swClients, notMessages>>

\* the oldest transaction completes: its requests have run in the order placed
\* (readwrite transactions on one store run one after another, in creation order)
TxComplete ==
  /\ txQueue # <<>>
  /\ txQueue' = Tail(txQueue)
  /\ settingsStore' = ExecuteAll(settingsStore, Head(txQueue).requests)
  /\ lastCommit' = Head(txQueue)
  /\ notified' = {}
  /\ lastDelivered' = NoMessage
  /\ swLog' = ""
  /\ UNCHANGED <<lastSync, openQueue, matchQueue, inbox, sent, swClients, notMessages>>

\* self.clients.matchAll() resolves with the controlled window clients and the
\* handler posts SW_UPDATE_AVAILABLE to each
MatchAllResolved ==
  /\ matchQueue # <<>>
  /\ matchQueue' = Tail(matchQueue)
  /\ inbox' = [t \in Tabs |->
                 IF t \in swClients
                 THEN Append(inbox[t], [type |-> "SW_UPDATE_AVAILABLE",
                                        version |-> Head(matchQueue), to |-> t])
                 ELSE inbox[t]]
  /\ notified' = swClients
  /\ swLog' = "stored and notified"
  /\ lastCommit' = NoTx
  /\ lastDelivered' = NoMessage
  /\ UNCHANGED <<lastSync, settingsStore, openQueue, txQueue, sent, swClients, notMessages>>

\* a tab's message event for the oldest message posted to it
Deliver(t) ==
  /\ inbox[t] # <<>>
  /\ inbox' = [inbox EXCEPT ![t] = Tail(inbox[t])]
  /\ lastDelivered' = Head(inbox[t])
  /\ lastCommit' = NoTx
  /\ notified' = {}
  /\ swLog' = ""
  /\ UNCHANGED <<lastSync, settingsStore, openQueue, txQueue, matchQueue, sent, swClients,
                 notMessages>>

\* the browser stops the idle worker and starts it again for the next event: the
\* worker's memory is gone, the database is what it reads back
Restart ==
  /\ openQueue = <<>>
  /\ matchQueue = <<>>
  /\ txQueue = <<>>
  /\ sent > 0
  /\ swLog # "restarted"
  /\ swLog' = "restarted"
  /\ lastCommit' = NoTx
  /\ notified' = {}
  /\ lastDelivered' = NoMessage
  /\ UNCHANGED <<lastSync, settingsStore, openQueue, txQueue, matchQueue, inbox, sent, swClients,
                 notMessages>>

MessagesNext ==
  \/ \E payload \in SettingsPayloads : SyncSettingsMessage(payload)
  \/ CheckUpdateMessage
  \/ \E ok \in BOOLEAN : DbOpened(ok)
  \/ TxComplete
  \/ MatchAllResolved
  \/ \E t \in Tabs : Deliver(t)
  \/ Restart

SpecMessages == MessagesInit /\ [][MessagesNext]_vars

\* requests and promises settle and messages are delivered
SpecMessagesLive ==
  /\ SpecMessages
  /\ WF_vars(\E ok \in BOOLEAN : DbOpened(ok))
  /\ WF_vars(TxComplete)
  /\ WF_vars(MatchAllResolved)
  /\ \A t \in Tabs : WF_vars(Deliver(t))

\* ---------------------------------------------------------------- request routing: SpecRouting
SelfOrigin == "https://join.example"
Origins ==
  {SelfOrigin, "https://firebasestorage.googleapis.com", "https://firestore.googleapis.com",
   "https://identitytoolkit.googleapis.com", "https://fonts.googleapis.com",
   "https://fonts.gstatic.com", "https://cdn.example"}
Destinations == {"document", "style", "script", "image", "font", "manifest", "iframe", ""}
\* url.pathname as its segments: /index.html, /api/tasks, /api, /assets/header.html,
\* /assets/manifest-dark.webmanifest, /api/app.webmanifest
Pathnames ==
  {<<Seg("index", "html")>>,
   <<Seg("api", ""), Seg("tasks", "")>>,
   <<Seg("api", "")>>,
   <<Seg("assets", ""), Seg("header", "html")>>,
   <<Seg("assets", ""), Seg("manifest-dark", "webmanifest")>>,
   <<Seg("api", ""), Seg("app", "webmanifest")>>}

\* the requests a page in scope can make: a navigation has destination document
\* (top level) or iframe, and only same-origin GET urls can be in the precache manifest
Requests ==
  {r \in [method : {"GET", "POST"}, destination : Destinations,
          mode : {"navigate", "cors", "no-cors"}, origin : Origins, pathname : Pathnames,
          inManifest : BOOLEAN] :
     /\ (r.mode = "navigate") <=> (r.destination \in {"document", "iframe"})
     /\ r.inManifest => r.origin = SelfOrigin
     /\ r.method = "POST" => r.destination \in {"document", "iframe", ""}}

\* url.pathname.startsWith('/api/') and the denylist /^\/api\//
startsWithApi(pathname) ==
  Len(pathname) >= 2 /\ pathname[1] = Seg("api", "")
\* url.pathname.endsWith('.webmanifest')
endsWithWebmanifest(pathname) ==
  Len(pathname) >= 1 /\ pathname[Len(pathname)].ext = "webmanifest"

\* the predicates in the order of the registerRoute calls
DeclaredOrder ==
  <<"document", "static", "image", "font", "manifest", "firebase-storage",
    "firebase-firestore", "auth", "google-fonts", "api", "navigation">>

\* the predicate of each route (NavigationRoute: mode navigate, pathname not denied;
\* the precache route: the url is in the injected manifest)
Matches(route, r) ==
  CASE route = "precache" -> r.inManifest
    [] route = "document" -> r.destination = "document"
    [] route = "static" -> r.destination = "style" \/ r.destination = "script"
    [] route = "image" -> r.destination = "image"
    [] route = "font" -> r.destination = "font"
    [] route = "manifest" -> endsWithWebmanifest(r.pathname)
    [] route = "firebase-storage" -> r.origin = "https://firebasestorage.googleapis.com"
    [] route = "firebase-firestore" -> r.origin = "https://firestore.googleapis.com"
    [] route = "auth" -> r.origin = "https://identitytoolkit.googleapis.com"
    [] route = "google-fonts" -> \/ r.origin = "https://fonts.googleapis.com"
                                 \/ r.origin = "https://fonts.gstatic.com"
    [] route = "api" -> startsWithApi(r.pathname)
    [] route = "navigation" -> r.mode = "navigate" /\ ~startsWithApi(r.pathname)

\* strategy and cache name of each route; the manifest route is StaleWhileRevalidate
\* in the template and NetworkFirst in setupRouting
Handler(router, route) ==
  CASE route = "precache" -> [route |-> route, strategy |-> "PrecacheStrategy", cacheName |-> PrecacheName]
    [] route = "document" -> [route |-> route, strategy |-> "NetworkFirst", cacheName |-> "html-pages"]
    [] route = "static" -> [route |-> route, strategy |-> "StaleWhileRevalidate", cacheName |-> "static-resources"]
    [] route = "image" -> [route |-> route, strategy |-> "CacheFirst", cacheName |-> "images"]
    [] route = "font" -> [route |-> route, strategy |-> "CacheFirst", cacheName |-> "fonts"]
    [] route = "manifest" ->
         [route |-> route,
          strategy |-> IF router = "template" THEN "StaleWhileRevalidate" ELSE "NetworkFirst",
          cacheName |-> "manifests"]
    [] route = "firebase-storage" -> [route |-> route, strategy |-> "CacheFirst", cacheName |-> "firebase-storage"]
    [] route = "firebase-firestore" -> [route |-> route, strategy |-> "NetworkFirst", cacheName |-> "firebase-firestore"]
    [] route = "auth" -> [route |-> route, strategy |-> "NetworkOnly", cacheName |-> "none"]
    [] route = "google-fonts" -> [route |-> route, strategy |-> "CacheFirst", cacheName |-> "google-fonts"]
    [] route = "api" -> [route |-> route, strategy |-> "NetworkFirst", cacheName |-> "api-cache"]
    [] route = "navigation" -> [route |-> route, strategy |-> "NetworkFirst", cacheName |-> "navigations"]

\* the routes of the router's GET list in registration order: the template calls
\* precacheAndRoute before its registerRoute calls
RegisteredRoutes(router) ==
  IF router = "template" THEN <<"precache">> \o DeclaredOrder ELSE DeclaredOrder

RECURSIVE findMatchingRoute_last(_, _, _)
findMatchingRoute_last(router, routes, r) ==
  IF routes = <<>> THEN NoRoute
  ELSE IF Matches(routes[Len(routes)], r) THEN Handler(router, routes[Len(routes)])
  ELSE findMatchingRoute_last(router, SubSeq(routes, 1, Len(routes) - 1), r)

\* Router.findMatchingRoute: the first route of the list whose predicate accepts
RECURSIVE findMatchingRoute(_, _, _)
findMatchingRoute(router, routes, r) ==
  IF routes = <<>> THEN NoRoute
  ELSE IF Matches(Head(routes), r) THEN Handler(router, Head(routes))
  ELSE findMatchingRoute(router, Tail(routes), r)

\* Router.handleRequest: routes are registered for GET (registerRoute's default
\* method); a request of another method finds an empty list
handleRequest(router, r) ==
  findMatchingRoute(router, IF r.method = "GET" THEN RegisteredRoutes(router) ELSE <<>>, r)

\* networkTimeoutSeconds of each route's strategy, 0 where the option is not given:
\* the template's html-pages route gives none, setupRouting takes its timeouts from
\* SW_CONFIG.NETWORK_TIMEOUTS
networkTimeoutSeconds(router, route) ==
  CASE route = "document" -> IF router = "template" THEN 0 ELSE 5
    [] route = "manifest" -> IF router = "template" THEN 0 ELSE 3
    [] route = "firebase-firestore" -> 5
    [] route = "api" -> 5
    [] route = "navigation" -> 3
    [] OTHER -> 0

\* strategies that look up and fill a cache
UsesCache(strategy) ==
  strategy \in {"NetworkFirst", "CacheFirst", "StaleWhileRevalidate", "PrecacheStrategy"}
\* strategies that answer from the cache before trying the network
CacheBeforeNetwork(strategy) ==
  strategy \in {"CacheFirst", "StaleWhileRevalidate", "PrecacheStrategy"}

RoutingInit ==
  /\ Idle({"theme", "fn", "resize", "dash", "lifecycle", "messages", "landing", "install", "update"})
  /\ swRouter \in {"template", "setupRouting"}
  /\ fetchRequest \in Requests
  /\ fetchPc = "pending"
  /\ matching = {}
  /\ response = NoRoute
  /\ strategyPc = "idle"
  /\ cached \in BOOLEAN
  /\ netResult = "pending"
  /\ timerFired = FALSE
  /\ fetchOutcome = "none"
  /\ cacheConsulted = FALSE
  /\ cachePopulated = FALSE

\* the fetch event reaches the router's listener; without a matching route the
\* listener does not call respondWith and the browser makes the request itself.
\* With a route, its strategy starts: CacheFirst, StaleWhileRevalidate and the
\* precache strategy look into the cache first, the others go to the network
FetchEvent ==
  /\ fetchPc = "pending"
  /\ fetchPc' = "done"
  /\ response' = handleRequest(swRouter, fetchRequest)
  /\ matching' = {RegisteredRoutes(swRouter)[i] : i \in
                    {j \in 1..Len(RegisteredRoutes(swRouter)) :
                       Matches(RegisteredRoutes(swRouter)[j], fetchRequest)}}
  /\ LET strategy == response'.strategy
     IN  /\ cacheConsulted' = CacheBeforeNetwork(strategy)
         /\ fetchOutcome' = IF response' = NoRoute THEN "unhandled"
                       ELSE IF CacheBeforeNetwork(strategy) /\ cached THEN "cache"
                       ELSE "none"
         /\ strategyPc' = IF response' = NoRoute THEN "done"
                          ELSE IF CacheBeforeNetwork(strategy) /\ cached
                          THEN (IF strategy = "StaleWhileRevalidate" THEN "revalidate"
                                ELSE "done")
                          ELSE "network"
  /\ UNCHANGED <<swRouter, fetchRequest, cached, netResult, timerFired, cachePopulated,
                 notRouting>>

\* the network answers the strategy's fetch, or the fetch fails. A response is put
\* into the cache by the caching strategies; after a failure NetworkFirst falls
\* back to the cache and the other strategies have nothing to answer with
NetworkSettles(ok) ==
  /\ strategyPc \in {"network", "revalidate"}
  /\ strategyPc' = "done"
  /\ netResult' = IF ok THEN "ok" ELSE "failed"
  /\ cachePopulated' = (ok /\ UsesCache(response.strategy))
  /\ cacheConsulted' = (cacheConsulted \/ (~ok /\ response.strategy = "NetworkFirst"))
  /\ fetchOutcome' = IF fetchOutcome # "none" THEN fetchOutcome
                ELSE IF ok THEN "network"
                ELSE IF response.strategy = "NetworkFirst" /\ cached THEN "cache"
                ELSE "error"
  /\ UNCHANGED <<swRouter, fetchRequest, fetchPc, matching, response, cached, timerFired,
                 notRouting>>

\* the timer of a NetworkFirst strategy with networkTimeoutSeconds elapses before the
\* network has answered: the strategy answers with the cached copy if there is
\* one, and goes on waiting for the network if there is none
NetworkTimeout ==
  /\ strategyPc = "network"
  /\ response.strategy = "NetworkFirst"
  /\ networkTimeoutSeconds(swRouter, response.route) > 0
  /\ ~timerFired
  /\ timerFired' = TRUE
  /\ cacheConsulted' = TRUE
  /\ fetchOutcome' = IF cached THEN "cache" ELSE fetchOutcome
  /\ strategyPc' = IF cached THEN "revalidate" ELSE strategyPc
  /\ UNCHANGED <<swRouter, fetchRequest, fetchPc, matching, response, cached, netResult,
                 cachePopulated, notRouting>>

RoutingNext ==
  \/ FetchEvent
  \/ \E ok \in BOOLEAN : NetworkSettles(ok)
  \/ NetworkTimeout

SpecRouting == RoutingInit /\ [][RoutingNext]_vars

\* ---------------------------------------------------------------- landing page: SpecLanding
redirectTarget_alwaysSummary(user) == "summary"

\* the page the callback redirects to: ./summary.html with a user, ./login.html
\* without
redirectTarget(user) == IF user = "user" THEN "summary" ELSE "login"

LandingInit ==
  /\ Idle({"theme", "fn", "resize", "dash", "lifecycle", "messages", "routing", "install", "update"})
  /\ landingVariant \in {"splash", "direct"}
  /\ landingPc = "loading"
  /\ hasRedirected = FALSE
  /\ redirectUser = NoUser
  /\ locationHref = "index"
  /\ redirectCount = 0
  /\ authSeen = <<>>
  /\ landingSplashHidden = FALSE

\* module initialisation on index.html (IS_INDEX), at once or on DOMContentLoaded:
\* initLanding() subscribes its callback with onAuthChange
initLanding ==
  /\ landingPc = "loading"
  /\ landingPc' = "subscribed"
  /\ UNCHANGED <<landingVariant, hasRedirected, redirectUser, locationHref, redirectCount,
                 authSeen, landingSplashHidden, notLanding>>

\* the auth state is notified (the initial state, a sign-in, a sign-out). The
\* callback runs while it is subscribed: past the hasRedirected guard it sets the
\* flag, unsubscribes and starts the splash timer, or redirects at once
AuthNotification(user) ==
  /\ Len(authSeen) < MaxNotifications
  /\ locationHref = "index"
  /\ landingPc # "loading"
  /\ authSeen' = Append(authSeen, user)
  /\ IF landingPc = "subscribed" /\ ~hasRedirected
     THEN /\ hasRedirected' = TRUE
          /\ IF landingVariant = "splash"
             THEN /\ landingPc' = "splashTimer"
                  /\ redirectUser' = user
                  /\ UNCHANGED <<locationHref, redirectCount>>
             ELSE /\ landingPc' = "left"
                  /\ redirectUser' = user
                  /\ locationHref' = redirectTarget(user)
                  /\ redirectCount' = redirectCount + 1
     ELSE UNCHANGED <<hasRedirected, landingPc, redirectUser, locationHref, redirectCount>>
  /\ UNCHANGED <<landingVariant, landingSplashHidden, notLanding>>

\* the SPLASH_DURATION timer fires: the splash is hidden and the REDIRECT_DELAY
\* timer is started
SplashTimeout ==
  /\ landingPc = "splashTimer"
  /\ landingPc' = "redirectTimer"
  /\ landingSplashHidden' = TRUE
  /\ UNCHANGED <<landingVariant, hasRedirected, redirectUser, locationHref, redirectCount,
                 authSeen, notLanding>>

\* the REDIRECT_DELAY timer fires: window.location.href is assigned
RedirectTimeout ==
  /\ landingPc = "redirectTimer"
  /\ landingPc' = "left"
  /\ locationHref' = redirectTarget(redirectUser)
  /\ redirectCount' = redirectCount + 1
  /\ UNCHANGED <<landingVariant, hasRedirected, redirectUser, authSeen,
                 landingSplashHidden, notLanding>>

LandingNext ==
  \/ initLanding
  \/ \E user \in {"user", "null"} : AuthNotification(user)
  \/ SplashTimeout
  \/ RedirectTimeout

SpecLanding == LandingInit /\ [][LandingNext]_vars

\* ---------------------------------------------------------------- install-prompt.js: SpecInstall
isInstallPromptAvailable == canShowInstallPrompt /\ deferredPrompt # NullPrompt

InstallInit ==
  /\ Idle({"theme", "fn", "resize", "dash", "lifecycle", "messages", "routing", "landing", "update"})
  /\ deferredPrompt = NullPrompt
  /\ canShowInstallPrompt = FALSE
  /\ promptCalls = [e \in PromptEvents |-> 0]
  /\ awaitingChoice = <<>>
  /\ eventsFired = 0
  /\ lastReturn = "none"

\* the browser dispatches beforeinstallprompt with a new event
handleBeforeInstallPrompt ==
  /\ eventsFired < MaxPrompts
  /\ eventsFired' = eventsFired + 1
  /\ deferredPrompt' = eventsFired + 1
  /\ canShowInstallPrompt' = TRUE
  /\ lastReturn' = "none"
  /\ UNCHANGED <<promptCalls, awaitingChoice, notInstall>>

\* the browser dispatches appinstalled
handleAppInstalled ==
  /\ eventsFired > 0
  /\ deferredPrompt' = NullPrompt
  /\ canShowInstallPrompt' = FALSE
  /\ lastReturn' = "none"
  /\ UNCHANGED <<promptCalls, awaitingChoice, eventsFired, notInstall>>

\* showInstallPrompt() up to its await. prompt() on an event that has been prompted
\* fails with InvalidStateError: by a throw, which the catch turns into a return of
\* false, or by a rejected promise nobody awaits, after which the call goes on to
\* await the event's userChoice
showInstallPrompt(throws) ==
  /\ Len(awaitingChoice) < MaxCalls
  /\ IF ~(deferredPrompt # NullPrompt /\ canShowInstallPrompt)
     THEN /\ ~throws
          /\ lastReturn' = "false"
          /\ UNCHANGED <<promptCalls, awaitingChoice>>
     ELSE /\ promptCalls[deferredPrompt] <= MaxCalls
          /\ throws => promptCalls[deferredPrompt] > 0
          /\ promptCalls' = [promptCalls EXCEPT ![deferredPrompt] = @ + 1]
          /\ IF throws
             THEN /\ lastReturn' = "false"
                  /\ UNCHANGED awaitingChoice
             ELSE /\ lastReturn' = "none"
                  /\ awaitingChoice' = Append(awaitingChoice, deferredPrompt)
  /\ UNCHANGED <<deferredPrompt, canShowInstallPrompt, eventsFired, notInstall>>

\* the calls suspended on event e, taken out of the suspended calls
RECURSIVE Without(_, _)
Without(seq, e) ==
  IF seq = <<>> THEN <<>>
  ELSE IF Head(seq) = e THEN Without(Tail(seq), e)
  ELSE <<Head(seq)>> \o Without(Tail(seq), e)

\* the user answers the prompt of event e: its userChoice settles and every call
\* awaiting it resumes: deferredPrompt = null; canShowInstallPrompt = false;
\* return outcome === "accepted"
UserChoice(e, accepted) ==
  /\ \E i \in 1..Len(awaitingChoice) : awaitingChoice[i] = e
  /\ awaitingChoice' = Without(awaitingChoice, e)
  /\ deferredPrompt' = NullPrompt
  /\ canShowInstallPrompt' = FALSE
  /\ lastReturn' = IF accepted THEN "true" ELSE "false"
  /\ UNCHANGED <<promptCalls, eventsFired, notInstall>>

InstallNext ==
  \/ handleBeforeInstallPrompt
  \/ handleAppInstalled
  \/ \E throws \in BOOLEAN : showInstallPrompt(throws)
  \/ \E e \in PromptEvents, accepted \in BOOLEAN : UserChoice(e, accepted)

SpecInstall == InstallInit /\ [][InstallNext]_vars

\* ---------------------------------------------------------------- sw-update.js: SpecUpdate
\* the versions the workers of the repository announce (CACHE_VERSION '18' of the
\* template, '19' of SW_CONFIG) and one of an earlier build
WorkerVersions == {"17", "18", "19"}

\* localStorage.getItem("app-version") || "0"
OrZero(item) == IF item = NoItem THEN "0" ELSE item

versionDiffers_always(newVersion, item) == TRUE

\* handleSwMessage: newVersion !== oldVersion
versionDiffers(newVersion, item) == newVersion # OrZero(item)

\* the module is evaluated: currentVersion = getItem("app-version") || "0"
UpdateInit ==
  /\ Idle({"theme", "fn", "resize", "dash", "lifecycle", "messages", "routing", "landing",
           "install"})
  /\ appVersion \in {NoItem} \cup WorkerVersions
  /\ currentVersion = OrZero(appVersion)
  /\ swListening = FALSE
  /\ handled = 0
  /\ storedBefore = NoItem
  /\ swMessage = NoItem
  /\ raised = NoItem

\* initSwUpdateChecker: stores the initial version and adds the message listener
initSwUpdateChecker ==
  /\ ~swListening
  /\ appVersion' = currentVersion
  /\ swListening' = TRUE
  /\ storedBefore' = NoItem
  /\ swMessage' = NoItem
  /\ raised' = NoItem
  /\ UNCHANGED <<currentVersion, handled, notUpdate>>

\* the page receives SW_UPDATE_AVAILABLE with a version: handleSwMessage, and
\* notifyUpdateAvailable when the version differs
handleSwMessage(newVersion) ==
  /\ swListening
  /\ handled < MaxUpdates
  /\ handled' = handled + 1
  /\ storedBefore' = appVersion
  /\ swMessage' = newVersion
  /\ IF versionDiffers(newVersion, appVersion)
     THEN /\ raised' = newVersion
          /\ appVersion' = newVersion
          /\ currentVersion' = newVersion
     ELSE /\ raised' = NoItem
          /\ UNCHANGED <<appVersion, currentVersion>>
  /\ UNCHANGED <<swListening, notUpdate>>

\* another page of the app handles a message of its own and stores its version,
\* or the user clears the site's storage
StorageChanged(item) ==
  /\ swListening
  /\ item # appVersion
  /\ appVersion' = item
  /\ storedBefore' = NoItem
  /\ swMessage' = NoItem
  /\ raised' = NoItem
  /\ UNCHANGED <<currentVersion, swListening, handled, notUpdate>>

UpdateNext ==
  \/ initSwUpdateChecker
  \/ \E newVersion \in WorkerVersions : handleSwMessage(newVersion)
  \/ \E item \in {NoItem} \cup WorkerVersions : StorageChanged(item)

SpecUpdate == UpdateInit /\ [][UpdateNext]_vars

\* ================================================================ claims
Max(S) == CHOOSE x \in S : \A y \in S : y <= x

\* the item under joinTheme right before entry k of the step's effects is made
StoredBefore(k) ==
  LET writes == {j \in 1..(k - 1) : effects'[j].op = "setItem"}
  IN  IF writes = {} THEN joinTheme ELSE effects'[Max(writes)].v

\* the call that posts entry k has written its theme to storage before: earlier in
\* this step, or before its await (the suspended applyTheme that resumes in this step)
StoreOfCallPrecedes(k) ==
  LET call == effects'[k].call
  IN  \/ \E j \in 1..(k - 1) :
           effects'[j] = [op |-> "setItem", v |-> call[2], call |-> call]
      \/ /\ call[1] = "applyTheme"
         /\ pendingApply # <<>>
         /\ pendingApply' = Tail(pendingApply)
         /\ Head(pendingApply).theme = call[2]
         /\ "setItem" \in Head(pendingApply).attempted

C1_Step ==
  \A k \in 1..Len(effects') :
    effects'[k].op = "postMessage" =>
      /\ effects'[k].v = OrDevice(StoredBefore(k))
      /\ effects'[k].call[1] \in {"applyTheme", "applyThemeWithoutIcons"}
           => StoreOfCallPrecedes(k)

\* C1: in every step, each SYNC_SETTINGS message posted carries the preference that
\* storage holds at the moment it is posted (a missing item reads as device, as in
\* the message's own read), and a message posted by applyTheme or
\* applyThemeWithoutIcons is preceded by that call's write of its theme to joinTheme.
C1_StoredBeforePosted == [][C1_Step]_vars

\* C1 witness: an applyTheme call posted its message after a later call had already
\* stored another preference: the message carries the later, stored one.
C1_Witness ==
  \E k \in 1..Len(effects) :
    /\ effects[k].op = "postMessage"
    /\ effects[k].call[1] = "applyTheme"
    /\ effects[k].v # effects[k].call[2]
    /\ effects[k].v = joinTheme

\* C2 (as claimed): at most one MediaQueryList carries the theme service's change
\* listener, and one OS color-scheme change runs the handler at most once.
C2_AtMostOneListener == mqlListeners <= 1 /\ handlerRuns <= 1

\* C3 (as claimed): the data-theme marker, once written, is light or dark.
C3_MarkerLightOrDark == dataTheme \in {Unset, "light", "dark"}

\* C4: getRealTheme returns light for light, dark for dark, and for device (also
\* when nothing is stored) the OS value: dark if the OS prefers dark, else light;
\* for these preferences the result is light or dark.
C4_ResolveTheme ==
  (fnCall = "getRealTheme" /\ realTheme # Pending) =>
    LET preference == OrDevice(joinTheme)
    IN  /\ preference = "light" => realTheme = "light"
        /\ preference = "dark" => realTheme = "dark"
        /\ preference = "device" => realTheme = (IF osDark THEN "dark" ELSE "light")
        /\ preference \in ThemeSet => realTheme \in {"light", "dark"}

\* C4 witness: the device preference resolved while the OS prefers dark.
C4_Witness ==
  /\ fnCall = "getRealTheme"
  /\ joinTheme = "device"
  /\ osDark
  /\ realTheme = "dark"

Rotated(preference) ==
  CASE preference = "device" -> "light"
    [] preference = "light" -> "dark"
    [] preference = "dark" -> "device"

\* C5: getNextTheme maps device to light, light to dark and dark to device; from a
\* preference of THEMES, one or two applications give another preference and three
\* give the preference back.
C5_RotationCycle ==
  \A i \in 1..Len(rotation) :
    rotation[i] \in ThemeSet =>
      /\ i + 1 <= Len(rotation) =>
           rotation[i + 1] = Rotated(rotation[i]) /\ rotation[i + 1] # rotation[i]
      /\ i + 2 <= Len(rotation) => rotation[i + 2] # rotation[i]
      /\ i + 3 <= Len(rotation) => rotation[i + 3] = rotation[i]

\* C5 witness: three applications from dark are back at dark.
C5_Witness ==
  /\ Len(rotation) >= 4
  /\ rotation[1] = "dark"
  /\ rotation[4] = "dark"

\* C6 (as claimed): an applyTheme / applyThemeWithoutIcons call that has ended has
\* attempted the storage write, the marker write and the worker message, and has
\* not thrown to its caller.
C6_EveryStepAttempted ==
  lastApply.fn \in {"applyTheme", "applyThemeWithoutIcons"} =>
    /\ lastApply.attempted = {"setItem", "setAttribute", "postMessage"}
    /\ ~lastApply.thrown

\* C7 (as claimed): with failing storage, initialisation still ends with a theme
\* in effect (a default preference applied to the document).
C7_StorageFailureFallsBack ==
  (loaded /\ storageMode # "ok") => dataTheme # Unset

StatusSum(s) == s.todo + s.inProgress + s.feedback + s.done
Recognised ==
  {"todo", "to-do", "in-progress", "progress", "awaiting-feedback", "await", "done"}

\* C8: total is the length of the list (0 for null), the four status counts sum to
\* at most total, and to less than total exactly when some task's status is none of
\* the recognised spellings.
C8_TotalsConsistent ==
  stats # NoStats =>
    LET list == IF tasks = NullTasks THEN <<>> ELSE tasks.items
    IN  /\ stats.total = Len(list)
        /\ StatusSum(stats) <= stats.total
        /\ \A c \in {stats.todo, stats.inProgress, stats.feedback, stats.done} :
             c <= stats.total
        /\ StatusSum(stats) < stats.total
             <=> \E i \in 1..Len(list) : list[i].status \notin Recognised

\* C8 witness: a list of three tasks of which some, but not all, are counted.
C8_Witness ==
  /\ stats # NoStats
  /\ stats.total = 3
  /\ StatusSum(stats) \in {1, 2}

\* C9: for null (or undefined) and for the empty list the result is all zero with a
\* null deadline.
C9_EmptyStats ==
  (stats # NoStats /\ (tasks = NullTasks \/ tasks = Array(<<>>))) =>
    stats = [total |-> 0, todo |-> 0, done |-> 0, inProgress |-> 0, feedback |-> 0,
             urgent |-> 0, urgentDeadline |-> NullDate]

\* C9 witness: calculateStats(null) has returned.
C9_Witness == stats # NoStats /\ tasks = NullTasks

\* the urgent, not-done tasks of the list that have a due date
UrgentOpen(list) ==
  {list[i] : i \in {j \in 1..Len(list) :
     /\ list[j].priority = "urgent" \/ list[j].prio = "Urgent"
     /\ list[j].status # "done"
     /\ list[j].dueDate # NoField}}

\* C10 (as claimed): urgentDeadline is null when the list has no urgent, not-done
\* task with a due date, and otherwise the due date of such a task that no such task
\* undercuts: the earliest date among them.
C10_NearestDeadline ==
  (stats # NoStats /\ tasks # NullTasks) =>
    LET open == UrgentOpen(tasks.items)
        dated == {t \in open : ~IsInvalidDate(t.dueDate)}
        d == stats.urgentDeadline
    IN  IF open = {} THEN d = NullDate
        ELSE /\ d \in {t.dueDate : t \in open}
             /\ dated # {} =>
                  /\ ~IsInvalidDate(d)
                  /\ \A t \in dated : DateValue(d) <= DateValue(t.dueDate)

\* the number of tasks of the list whose status is one of `spellings`
CountStatus(list, spellings) ==
  Cardinality({i \in 1..Len(list) : list[i].status \in spellings})

\* C11: every count of calculateStats is the number of tasks that match an accepted
\* spelling of its bucket: todo {todo, to-do}, inProgress {in-progress, progress},
\* feedback {awaiting-feedback, await}, done {done}, urgent priority "urgent" or
\* prio "Urgent"; total is the length of the list.
C11_BucketCounts ==
  stats # NoStats =>
    LET list == IF tasks = NullTasks THEN <<>> ELSE tasks.items
    IN  /\ stats.total = Len(list)
        /\ stats.todo = CountStatus(list, {"todo", "to-do"})
        /\ stats.inProgress = CountStatus(list, {"in-progress", "progress"})
        /\ stats.feedback = CountStatus(list, {"awaiting-feedback", "await"})
        /\ stats.done = CountStatus(list, {"done"})
        /\ stats.urgent =
             Cardinality({i \in 1..Len(list) :
                            list[i].priority = "urgent" \/ list[i].prio = "Urgent"})

\* C11 witness: [{status: todo}, {status: to-do}, {status: done}] gives todo 2,
\* done 1, total 3.
C11_Witness ==
  /\ tasks = Array(<<Task("todo", "medium", NoField, NoField),
                     Task("to-do", "medium", NoField, NoField),
                     Task("done", "medium", NoField, NoField)>>)
  /\ stats # NoStats
  /\ stats.todo = 2
  /\ stats.done = 1
  /\ stats.total = 3

\* C12 (as claimed): the callback is called at most once per step, only by the
\* listener's timer, only when debounceMs have passed since the latest resize event,
\* and exactly when the burst of resize events took the window across the
\* mobile/desktop breakpoint.
C12_CallbackOnCrossingOnly ==
  /\ callbacks <= 1
  /\ callbacks = 1 => fired /\ quiet >= debounceMs
  /\ fired => (callbacks = 1 <=> IsMobileWidth(burstFrom) # IsMobileWidth(innerWidth))

Has(log, step) == \E k \in 1..Len(log) : log[k] = step
Pos(log, step) == CHOOSE k \in 1..Len(log) : log[k] = step /\ \A j \in 1..(k - 1) : log[j] # step

\* the steps of one sign-in handling, in the claimed order, with the hide last
SignInOrder(h) ==
  LET log == h.log
  IN  /\ Has(log, "profile") /\ Has(log, "stats") /\ Has(log, "dom") /\ Has(log, "hide")
      /\ Pos(log, "profile") < Pos(log, "stats")
      /\ Pos(log, "stats") < Pos(log, "dom")
      /\ Pos(log, "dom") < Pos(log, "hide")
      /\ Pos(log, "hide") = Len(log)
      /\ h.tasks # "skipped" => Has(log, "tasks")
      /\ Has(log, "tasks") =>
           Pos(log, "profile") < Pos(log, "tasks") /\ Pos(log, "tasks") < Pos(log, "stats")

C14_SplashShownWhileSignedOut == lastNotified = "null" => ~splashHidden

C16_OnlyConfiguredCaches ==
  swState = "activated" =>
    /\ cacheKeys \subseteq Configured(swVariant)
    /\ (keysBefore \cap Configured(swVariant)) \subseteq cacheKeys

\* what the install and activate listeners have done in each state of the worker
C17_Handlers ==
  /\ swState = "installed" => skipWaitingFlag
  /\ swState \in {"activating", "activated"} =>
       /\ claimState # "none"
       /\ \A t \in Tabs : controllerOf[t] # "old"
  /\ claimState = "settled" => \A t \in Tabs : controllerOf[t] = "new"

\* C17: a worker that has finished installing has requested skip-waiting, so its
\* activation does not wait for the tabs of the old worker; an activating or
\* activated worker has called clients.claim() and no tab is left with the old
\* worker; once the claim has resolved every open tab is controlled by the new one.
C17_NeverWaiting ==
  /\ []C17_Handlers
  /\ (swState = "installed") ~> (swState = "activated" /\ claimState = "settled")

\* C17 witness: the worker is activated, its claim has resolved and every open tab
\* is controlled by it.
C17_Witness ==
  /\ swState = "activated"
  /\ claimState = "settled"
  /\ \A t \in Tabs : controllerOf[t] = "new"

\* C18: when the transaction of a SYNC_SETTINGS message has completed, the settings
\* store holds exactly the entries of the message's payload (whatever it held before
\* is gone), and a restart of the worker leaves the store as it is, so that the
\* restarted worker reads this content back.
C18_StoreOverwrittenWithPayload ==
  /\ [](lastCommit.type = "SYNC_SETTINGS" => settingsStore = StoreOf(lastCommit.payload))
  /\ [][swLog' = "restarted" => settingsStore' = settingsStore]_vars

\* C18 witness: a SYNC_SETTINGS transaction has completed after an earlier message
\* and the store holds the payload's joinTheme and nothing else.
C18_Witness ==
  /\ lastCommit.type = "SYNC_SETTINGS"
  /\ sent >= 2
  /\ settingsStore["joinTheme"] = Stored(lastCommit.payload[1].value)
  /\ settingsStore["sw-version"] = Absent

\* C19: whenever the worker posts SW_UPDATE_AVAILABLE, it posts its current version
\* to every connected tab and the settings store already holds that version under
\* sw-version; every tab it posted to eventually receives the message.
C19_WriteThenNotify ==
  /\ [](notified # {} =>
         /\ notified = swClients
         /\ \A t \in notified : inbox[t][Len(inbox[t])].version = CACHE_VERSION
         /\ settingsStore["sw-version"] = Stored(CACHE_VERSION))
  /\ \A t \in Tabs :
       (t \in notified) ~> (lastDelivered.type = "SW_UPDATE_AVAILABLE" /\ lastDelivered.to = t)

\* position of the first predicate of the declared order that accepts the request,
\* 0 when none does
FirstDeclared(r) ==
  IF \E i \in 1..Len(DeclaredOrder) : Matches(DeclaredOrder[i], r)
  THEN CHOOSE i \in 1..Len(DeclaredOrder) :
         /\ Matches(DeclaredOrder[i], r)
         /\ \A j \in 1..(i - 1) : ~Matches(DeclaredOrder[j], r)
  ELSE 0

\* C20 (as claimed): every request is answered by exactly one bucket, the one of the
\* first predicate of the declared order (document ... navigation fallback) that
\* accepts it; no request is left without a bucket.
C20_EveryRequestOneBucket ==
  fetchPc = "done" =>
    /\ response # NoRoute
    /\ FirstDeclared(fetchRequest) > 0
    /\ response.route = DeclaredOrder[FirstDeclared(fetchRequest)]

\* C20 (amended): a request is answered by at most one bucket. A GET request that
\* a registered predicate accepts is answered by the first such route in
\* registration order, which in the template is the precache route for urls of the
\* precache manifest and otherwise follows the declared order; later matching
\* routes do not act. A request of another method, or one no predicate accepts, is
\* left without a bucket.
C20_FirstRegisteredMatchOrNone ==
  fetchPc = "done" =>
    LET r == fetchRequest
        first == FirstDeclared(r)
        precached == swRouter = "template" /\ r.inManifest
    IN  /\ (response = NoRoute) <=> (r.method # "GET" \/ (first = 0 /\ ~precached))
        /\ r.method = "GET" /\ precached => response.route = "precache"
        /\ r.method = "GET" /\ ~precached /\ first > 0 =>
             response = Handler(swRouter, DeclaredOrder[first])
        /\ response # NoRoute => response.route \in matching

\* C20 witness: an image of Firebase Storage is accepted by two predicates and is
\* answered from the images bucket.
C20_Witness ==
  /\ fetchPc = "done"
  /\ {"image", "firebase-storage"} \subseteq matching
  /\ response.cacheName = "images"
  /\ response.strategy = "CacheFirst"

AuthOrigin == "https://identitytoolkit.googleapis.com"

\* C21: a request to the authentication origin never has a cache consulted or
\* populated for it, whatever its destination, and when its network attempt has
\* failed the fetch has failed without a fallback.
C21_AuthNeverCached ==
  fetchRequest.origin = AuthOrigin =>
    /\ ~cacheConsulted
    /\ ~cachePopulated
    /\ response.strategy \in {"NetworkOnly", "none"}
    /\ netResult = "failed" => fetchOutcome = "error"

\* C22: every route answered network-first has a network timeout, and once the
\* timeout has elapsed without an answer the request is answered from the cache if
\* a copy is present and has failed otherwise.
C22_NetworkFirstBounded ==
  fetchPc = "done" /\ response.strategy = "NetworkFirst" =>
    /\ networkTimeoutSeconds(swRouter, response.route) > 0
    /\ timerFired => fetchOutcome = (IF cached THEN "cache" ELSE "error")

\* C23: while the stored preference is light or dark, no OS color-scheme listener
\* of the theme service is registered, the delay inside applyTheme included.
C23_ListenerOnlyForDevice ==
  joinTheme \in {"light", "dark"} => mqlListeners = 0 /\ ~systemThemeListener

\* C25: when the service is initialised on writable storage with a stored theme
\* of THEMES and no applyTheme call is in progress, the document theme marker is the
\* stored preference resolved against the current OS color scheme.
C25_MarkerFollowsPreference ==
  loaded /\ storageMode = "ok" /\ joinTheme \in ThemeSet /\ pendingApply = <<>> =>
    dataTheme = ResolveTheme(joinTheme)

\* C24: on the landing page at most one redirect is made; it is scheduled by the
\* first auth notification and goes to the summary page if that notification
\* carried a user and to the login page otherwise; later notifications neither
\* change nor repeat it.
C24_OneRedirectByFirstNotification ==
  /\ redirectCount <= 1
  /\ hasRedirected <=> authSeen # <<>>
  /\ hasRedirected => redirectUser = authSeen[1]
  /\ redirectCount = 1 =>
       /\ authSeen # <<>>
       /\ locationHref = (IF authSeen[1] = "user" THEN "summary" ELSE "login")
  /\ redirectCount = 0 => locationHref = "index"

\* C24 witness: the first notification carried no user, a later one a user, and
\* the page has gone to the login page.
C24_Witness ==
  /\ Len(authSeen) >= 2
  /\ authSeen[1] = "null"
  /\ authSeen[2] = "user"
  /\ locationHref = "login"
  /\ redirectCount = 1

\* C26: a SYNC_SETTINGS message leaves the stored version alone: when its
\* transaction completes on a store that holds the worker's version under
\* sw-version, the store still holds it.
C26_SyncKeepsVersion ==
  [][(lastCommit'.type = "SYNC_SETTINGS" /\ settingsStore["sw-version"] = Stored(CACHE_VERSION))
       => settingsStore'["sw-version"] = Stored(CACHE_VERSION)]_vars

\* C27: when every message has been processed and the requests of the latest
\* SYNC_SETTINGS message were placed, the store holds that message's preference.
C27_LastSyncWins ==
  openQueue = <<>> /\ txQueue = <<>> /\ lastSync.state = "placed" =>
    settingsStore["joinTheme"] = Stored(lastSync.payload[1].value)

\* C27 witness: three messages have been processed and the store holds the
\* preference of the latest SYNC_SETTINGS message, which differs from device.
C27_Witness ==
  /\ sent >= 3
  /\ openQueue = <<>>
  /\ txQueue = <<>>
  /\ lastSync.state = "placed"
  /\ lastSync.payload[1].value = "dark"
  /\ settingsStore["joinTheme"] = Stored("dark")

\* C28: with the listener installed and no debounce timer pending, the layout in
\* the page is the one buildSummaryLayoutHTML selects for the current width.
C28_LayoutMatchesWidth ==
  resizeListening /\ resizeTimeout = NoTimer =>
    layoutShown = buildSummaryLayoutHTML(innerWidth)

\* C29: prompt() is called at most once on each captured event, also by a call
\* started while another awaits the user's choice; and when no call is in progress
\* isInstallPromptAvailable() is true exactly when a deferred event is held.
C29_PromptedAtMostOnce ==
  /\ \A e \in PromptEvents : promptCalls[e] <= 1
  /\ awaitingChoice = <<>> => (isInstallPromptAvailable <=> deferredPrompt # NullPrompt)

\* C30: a page that handles SW_UPDATE_AVAILABLE raises swUpdateAvailable, with the
\* message's version, exactly when that version differs from the app-version stored
\* at that moment, and then the stored app-version is the message's version; a
\* message that repeats the stored version raises nothing and leaves the stored
\* version as it was.
C30_NotifyOnNewVersionOnly ==
  swMessage # NoItem =>
    /\ (raised # NoItem) <=> (swMessage # storedBefore)
    /\ raised # NoItem => raised = swMessage
    /\ swMessage # storedBefore => appVersion = swMessage /\ currentVersion = swMessage
    /\ swMessage = storedBefore => appVersion = storedBefore

\* C30 witness: the third message repeats the version stored by an earlier one and
\* raises no notification.
C30_Witness ==
  /\ handled >= 3
  /\ swMessage = "19"
  /\ storedBefore = "19"
  /\ raised = NoItem
  /\ currentVersion = "19"

====
